---- MODULE Spec2Model ----
(***************************************************************************)
(* State-machine model of the powerplantsim (ppsim) entities and plant.    *)
(*                                                                         *)
(* Numbers.  Python floats are modelled by integers.  Storage quantities   *)
(* are counted in fine units (one flow unit = Fine fine units) so that the *)
(* product (1 - dissipation) * level is exact for every level the model    *)
(* reaches.  Edge flows are counted in 1/FlowDen-ths so that fractional    *)
(* flows exist.  Python's None and numpy's nan are the two sentinels None  *)
(* and NaN, which are outside every numeric range used.                    *)
(*                                                                         *)
(* Handlers.  Each method of the source is an operator from the object's   *)
(* record (and the call's arguments) to [obj |-> the object after the      *)
(* call, err |-> "" or the label of the exception raised].  The actions    *)
(* apply a handler to one object of the state and record the call.         *)
(***************************************************************************)
EXTENDS Integers, Sequences, FiniteSets, TLC

VARIABLES
    nodes,      \* name -> node object (storage, machine, customer, supplier, purchaser)
    edges,      \* (source, destination) -> edge object
    rng,        \* number of draws taken from the shared random generator
    call,       \* the last call made on an object: operation, arguments, outcome
    run         \* position and bookkeeping of Plant.run

vars == <<nodes, edges, rng, call, run>>

-----------------------------------------------------------------------------
(* Bounds of the model *)

\* number of commits the storage harness performs at most
MaxSteps == 3
\* dissipation ranges over 0/DissDen .. DissDen/DissDen
DissDen == 2
\* horizon length of the edge and prediction-node harnesses
MaxHorizon == 3
\* number of draws taken from the random generator at most
MaxDraws == 4
\* number of commits the machine harness performs at most
MaxMachineSteps == 2
\* number of commits the starts harness performs at most
MaxStartSteps == 5
\* horizon length of the plants of the run model
MaxRunHorizon == 2
\* number of calls of Plant.run on one plant
MaxRuns == 2
\* number of entries of a plan at most
MaxPlanKeys == 4
\* edge flows are counted in 1/FlowDen-ths of a unit
FlowDen == 2

-----------------------------------------------------------------------------
(* Values *)

None == -1000000
NaN == -999999

IsNull(x) == x = None \/ x = NaN
IsNum(x) == ~IsNull(x)

\* one flow unit, in fine units
Fine == DissDen ^ MaxSteps

Last(s) == s[Len(s)]

\* float addition: nan is absorbing
Add(a, b) == IF a = NaN \/ b = NaN THEN NaN ELSE a + b

RECURSIVE SumFlows(_, _)
SumFlows(keys, flows) ==
    IF keys = {} THEN 0
    ELSE LET k == CHOOSE k \in keys : TRUE
         IN Add(flows[k], SumFlows(keys \ {k}, flows))

\* the horizon built from an integer: the labels 0 .. h-1
Horizon(h) == [i \in 1..h |-> i - 1]

Ok(o) == [obj |-> o, err |-> ""]
Raise(o, e) == [obj |-> o, err |-> e]

NoCall ==
    [op |-> "init", key |-> "", flows |-> <<>>, state |-> None, err |-> "",
     plan |-> <<>>, out |-> <<>>]
NoRun == [pc |-> "idle", step |-> 0, completed |-> 0, calls |-> 0, _horizon |-> <<>>]

-----------------------------------------------------------------------------
(* Storage: src/ppsim/datatypes/storage.py *)

Storage(name, horizon, capacity, dissipation, charge_rate, discharge_rate) ==
    [kind |-> "storage", name |-> name, _horizon |-> horizon,
     capacity |-> capacity, dissipation |-> dissipation,
     charge_rate |-> charge_rate, discharge_rate |-> discharge_rate,
     _storage |-> <<>>, current_storage |-> None]

\* (1 - dissipation) * level, dissipation given in DissDen-ths
DissipateNothing(s, level) == level

Dissipate(s, level) == ((DissDen - s.dissipation) * level) \div DissDen

StorageUpdate(s) ==
    Ok([s EXCEPT !.current_storage =
            IF Len(s._storage) = 0 THEN 0 ELSE Dissipate(s, Last(s._storage))])

StorageInFlow(s, flows) == SumFlows({k \in DOMAIN flows : k[2] = s.name}, flows)
StorageOutFlow(s, flows) == SumFlows({k \in DOMAIN flows : k[1] = s.name}, flows)

\* the checks on the two totals (lines 78-84)
StorageFlowErrorNoRates(s, in_flow, out_flow) ==
    IF ~(in_flow = 0 \/ out_flow = 0) THEN "either input or output" ELSE ""

StorageFlowError(s, in_flow, out_flow) ==
    IF ~(in_flow = 0 \/ out_flow = 0) THEN "either input or output"
    ELSE IF ~(in_flow <= s.charge_rate) THEN "maximal input flow"
    ELSE IF ~(out_flow <= s.discharge_rate) THEN "maximal output flow"
    ELSE ""

\* the checks on the new level (lines 87-89)
StorageLevelErrorNoCapacity(s, storage) ==
    IF ~(storage >= 0) THEN "negative amount" ELSE ""

StorageLevelError(s, storage) ==
    IF ~(storage >= 0) THEN "negative amount"
    ELSE IF ~(storage <= s.capacity) THEN "more than capacity"
    ELSE ""

\* Variant that drops the pending amount before it checks the flows.
StorageStepResetting(s, flows) ==
    LET in_flow == StorageInFlow(s, flows)
        out_flow == StorageOutFlow(s, flows)
        storage == s.current_storage + in_flow - out_flow
        s1 == [s EXCEPT !.current_storage = None]
    IN  IF StorageFlowError(s, in_flow, out_flow) # ""
            THEN Raise(s1, StorageFlowError(s, in_flow, out_flow))
        ELSE IF s.current_storage = None
            THEN Raise(s1, "TypeError")
        ELSE IF StorageLevelError(s, storage) # ""
            THEN Raise(s1, StorageLevelError(s, storage))
        ELSE Ok([s EXCEPT !._storage = Append(@, storage),
                          !.current_storage = None])

StorageStep(s, flows) ==
    LET in_flow == StorageInFlow(s, flows)
        out_flow == StorageOutFlow(s, flows)
        storage == s.current_storage + in_flow - out_flow
    IN  IF StorageFlowError(s, in_flow, out_flow) # ""
            THEN Raise(s, StorageFlowError(s, in_flow, out_flow))
        ELSE IF s.current_storage = None
            THEN Raise(s, "TypeError")
        ELSE IF StorageLevelError(s, storage) # ""
            THEN Raise(s, StorageLevelError(s, storage))
        ELSE Ok([s EXCEPT !._storage = Append(@, storage),
                          !.current_storage = None])

(* The storage harness: one storage 's' whose horizon is one step shorter  *)
(* than the number of commits the harness performs, driven by any sequence *)
(* of update and step calls with any flows on its two in-edges and its     *)
(* out-edge.                                                               *)

StorageFlowKeys == {<<"i1", "s", "c">>, <<"i2", "s", "c">>, <<"s", "o1", "c">>}
StorageFlowVals == {0, Fine, 2 * Fine}

InitStorage ==
    /\ \E cap \in {2 * Fine, 3 * Fine}, d \in 0..DissDen, cr \in {2 * Fine, 3 * Fine} :
            nodes = ("s" :> Storage("s", Horizon(MaxSteps - 1), cap, d, cr, Fine))
    /\ edges = <<>>
    /\ rng = 0
    /\ call = NoCall
    /\ run = NoRun

DoStorageUpdate ==
    /\ "s" \in DOMAIN nodes /\ nodes["s"].kind = "storage"
    /\ Len(nodes["s"]._storage) < MaxSteps
    /\ LET r == StorageUpdate(nodes["s"])
       IN  /\ nodes' = [nodes EXCEPT !["s"] = r.obj]
           /\ call' = [NoCall EXCEPT !.op = "Storage.update", !.key = "s", !.err = r.err]
    /\ UNCHANGED <<edges, rng, run>>

DoStorageStep ==
    /\ "s" \in DOMAIN nodes /\ nodes["s"].kind = "storage"
    /\ Len(nodes["s"]._storage) < MaxSteps
    /\ \E flows \in [StorageFlowKeys -> StorageFlowVals] :
         LET r == StorageStep(nodes["s"], flows)
         IN  /\ nodes' = [nodes EXCEPT !["s"] = r.obj]
             /\ call' = [NoCall EXCEPT !.op = "Storage.step", !.key = "s",
                                       !.flows = flows, !.err = r.err]
    /\ UNCHANGED <<edges, rng, run>>

NextStorage == DoStorageUpdate \/ DoStorageStep

SpecStorage == InitStorage /\ [][NextStorage]_vars

-----------------------------------------------------------------------------
(* pandas Series: a sequence of (index label, value) entries *)

SeriesLabels(series) == {series[i].index : i \in 1..Len(series)}

\* series[index] = value: overwrites the entries of that label, else appends
SetItem(series, index, value) ==
    IF index \in SeriesLabels(series)
    THEN [i \in 1..Len(series) |->
            IF series[i].index = index THEN [index |-> index, value |-> value] ELSE series[i]]
    ELSE Append(series, [index |-> index, value |-> value])

-----------------------------------------------------------------------------
(* InternalDataType._step: src/ppsim/datatypes/datatype.py *)

\* the assertion of line 98
StepError(o) ==
    IF ~(o.step < Len(o._horizon)) THEN "maximal number of updates" ELSE ""

\* the index read at line 99 and the increment of line 100
StepIndex(o) == o._horizon[o.step + 1]
StepAdvance(o) == [o EXCEPT !.step = @ + 1]

-----------------------------------------------------------------------------
(* InternalEdge: src/ppsim/datatypes/edge.py *)

InternalEdge(source, destination, to_machine, horizon, min_flow, max_flow, integer) ==
    [source |-> source, destination |-> destination, to_machine |-> to_machine,
     min_flow |-> min_flow, max_flow |-> max_flow, integer |-> integer,
     _horizon |-> horizon, _flows |-> <<>>, step |-> 0]

\* float.is_integer, flows counted in 1/FlowDen-ths
IsInteger(flow) == flow % FlowDen = 0

\* the consistency checks of lines 130-137, "" when the flow is accepted
EdgeFlowErrorNoBounds(e, flow) ==
    IF flow = None \/ flow = NaN
    THEN IF ~e.to_machine THEN "None flows" ELSE ""
    ELSE IF ~(~e.integer \/ IsInteger(flow)) THEN "should be integer"
    ELSE ""

EdgeFlowError(e, flow) ==
    IF flow = None \/ flow = NaN
    THEN IF ~e.to_machine THEN "None flows" ELSE ""
    ELSE IF ~(flow >= e.min_flow) THEN "should be >="
    ELSE IF ~(flow <= e.max_flow) THEN "should be <="
    ELSE IF ~(~e.integer \/ IsInteger(flow)) THEN "should be integer"
    ELSE ""

EdgeUpdate(e, flow) ==
    IF StepError(e) # "" THEN Raise(e, StepError(e))
    ELSE LET index == StepIndex(e)
             e1 == StepAdvance(e)
         IN  IF EdgeFlowError(e1, flow) # "" THEN Raise(e1, EdgeFlowError(e1, flow))
             ELSE Ok([e1 EXCEPT !._flows = SetItem(@, index, flow)])

(* The edge harness: one edge ('a', 'b') over a horizon of MaxHorizon      *)
(* labels, driven by any sequence of update calls with null, negative,     *)
(* fractional and whole flows.                                             *)

EdgeKey == <<"a", "b">>
EdgeFlowVals == {None, NaN} \cup (-1 .. 2 * FlowDen + 1)

InitEdge ==
    /\ \E lo \in {0, FlowDen}, hi \in {FlowDen, 2 * FlowDen},
          integer \in BOOLEAN, to_machine \in BOOLEAN :
            edges = (EdgeKey :> InternalEdge("a", "b", to_machine, Horizon(MaxHorizon),
                                             lo, hi, integer))
    /\ nodes = <<>>
    /\ rng = 0
    /\ call = NoCall
    /\ run = NoRun

DoEdgeUpdate ==
    /\ EdgeKey \in DOMAIN edges
    /\ \E flow \in EdgeFlowVals :
         LET r == EdgeUpdate(edges[EdgeKey], flow)
         IN  /\ edges' = [edges EXCEPT ![EdgeKey] = r.obj]
             /\ call' = [NoCall EXCEPT !.op = "InternalEdge.update", !.key = "a-b",
                                       !.state = flow, !.err = r.err]
    /\ UNCHANGED <<nodes, rng, run>>

NextEdge == DoEdgeUpdate

SpecEdge == InitEdge /\ [][NextEdge]_vars

-----------------------------------------------------------------------------
(* ExtremityNode, Priced, Customer, Purchaser, Supplier:                   *)
(* src/ppsim/datatypes/extremity.py (Customer.step also in client.py)      *)

ExtremityNode(kind, name, predictions, variance) ==
    [kind |-> kind, name |-> name, _predictions |-> predictions,
     _variance_fn |-> variance, _values |-> <<>>, current_value |-> None]

\* the outputs a variance function can return; the default one returns 0
\* (src/ppsim/plant/plant.py line 186) and draws nothing
VarianceOutputsAnyFunction(n) == {-1, 0, 1}
VarianceOutputs(n) == IF n._variance_fn = "zero" THEN {0} ELSE {-1, 0, 1}
VarianceDraws(n) == IF n._variance_fn = "zero" THEN 0 ELSE 1

\* update at plant step `step` where the variance function returned eps
ExtremityUpdate(n, step, eps) ==
    IF ~(step < Len(n._predictions)) THEN Raise(n, "IndexError")
    ELSE Ok([n EXCEPT !.current_value = n._predictions[step + 1] + eps])

PricedStep(n) ==
    Ok([n EXCEPT !._values = Append(@, n.current_value), !.current_value = None])

CustomerInFlow(n, flows) == SumFlows({k \in DOMAIN flows : k[2] = n.name}, flows)

\* the assertion of line 151; comparing with a None demand is a TypeError
CustomerFlowErrorStrict(demand, flow) ==
    IF demand = None THEN "TypeError"
    ELSE IF ~(flow < demand) THEN "can accept at most"
    ELSE ""

CustomerFlowError(demand, flow) ==
    IF demand = None THEN "TypeError"
    ELSE IF ~(flow <= demand) THEN "can accept at most"
    ELSE ""

CustomerStep(n, flows) ==
    LET demand == n.current_value
        n1 == [n EXCEPT !.current_value = None]
        flow == CustomerInFlow(n, flows)
    IN  IF CustomerFlowError(demand, flow) # ""
            THEN Raise(n1, CustomerFlowError(demand, flow))
        ELSE Ok([n1 EXCEPT !._values = Append(@, demand)])

ExtremityStep(n, flows) ==
    IF n.kind = "customer" THEN CustomerStep(n, flows) ELSE PricedStep(n)

(* The extremity harness: one customer, purchaser or supplier 'c' attached *)
(* to the test plant, whose step is always 0, driven by any sequence of    *)
(* update and step calls.  The customer receives any flows on two in-edges *)
(* and on one edge that leads elsewhere.                                   *)

\* TestPlant.step (src/test/utils.py)
TestPlantStep == 0

CustomerFlowKeys == {<<"i1", "c", "com">>, <<"i2", "c", "com">>, <<"i1", "z", "com">>}
ExtremityFlows(n) ==
    IF n.kind = "customer" THEN [CustomerFlowKeys -> {0, 1, 2}] ELSE {<<>>}

InitExtremity ==
    /\ \E kind \in {"customer", "purchaser", "supplier"}, variance \in {"zero", "random"} :
            nodes = ("c" :> ExtremityNode(kind, "c", [i \in 1..MaxHorizon |-> i], variance))
    /\ edges = <<>>
    /\ rng = 0
    /\ call = NoCall
    /\ run = NoRun

IsExtremity(n) == n.kind \in {"customer", "purchaser", "supplier"}

DoExtremityUpdate ==
    /\ "c" \in DOMAIN nodes /\ IsExtremity(nodes["c"])
    /\ Len(nodes["c"]._values) < MaxSteps
    /\ \E eps \in VarianceOutputs(nodes["c"]) :
         LET r == ExtremityUpdate(nodes["c"], TestPlantStep, eps)
         IN  /\ nodes' = [nodes EXCEPT !["c"] = r.obj]
             /\ call' = [NoCall EXCEPT !.op = "ExtremityNode.update", !.key = "c", !.err = r.err]
    /\ rng + VarianceDraws(nodes["c"]) <= MaxDraws
    /\ rng' = rng + VarianceDraws(nodes["c"])
    /\ UNCHANGED <<edges, run>>

DoExtremityStep ==
    /\ "c" \in DOMAIN nodes /\ IsExtremity(nodes["c"])
    /\ Len(nodes["c"]._values) < MaxSteps
    /\ \E flows \in ExtremityFlows(nodes["c"]) :
         LET r == ExtremityStep(nodes["c"], flows)
         IN  /\ nodes' = [nodes EXCEPT !["c"] = r.obj]
             /\ call' = [NoCall EXCEPT !.op = "ExtremityNode.step", !.key = "c",
                                       !.flows = flows, !.err = r.err]
    /\ UNCHANGED <<edges, rng, run>>

NextExtremity == DoExtremityUpdate \/ DoExtremityStep

SpecExtremity == InitExtremity /\ [][NextExtremity]_vars

-----------------------------------------------------------------------------
(* Machine: src/ppsim/datatypes/machine.py *)

NoMaxStarting == <<>>

Machine(name, setpoint, discrete_setpoint, max_starting) ==
    [kind |-> "machine", name |-> name, _setpoint |-> setpoint,
     discrete_setpoint |-> discrete_setpoint, max_starting |-> max_starting,
     _states |-> <<>>, current_state |-> None]

\* the setpoint table: sorted index and one column per ('input'|'output', commodity)
Columns(m) ==
    {<<"input", c>> : c \in DOMAIN m._setpoint.input}
        \cup {<<"output", c>> : c \in DOMAIN m._setpoint.output}
Column(m, col) ==
    IF col[1] = "input" THEN m._setpoint.input[col[2]] ELSE m._setpoint.output[col[2]]
Breakpoints(m) == {m._setpoint.index[i] : i \in 1..Len(m._setpoint.index)}

MachineUpdate(m, state) == Ok([m EXCEPT !.current_state = state])

\* the totals of lines 94-100, per column
MachineFlows(m, flows) ==
    [col \in Columns(m) |->
        IF col[1] = "output"
        THEN SumFlows({k \in DOMAIN flows : k[1] = m.name /\ k[3] = col[2]}, flows)
        ELSE SumFlows({k \in DOMAIN flows : k[2] = m.name /\ k[3] = col[2]}, flows)]

\* an edge of the machine whose commodity is no column of the table
MachineFlowsKeyError(m, flows) ==
    \E k \in DOMAIN flows :
        \/ k[1] = m.name /\ <<"output", k[3]>> \notin Columns(m)
        \/ k[2] = m.name /\ <<"input", k[3]>> \notin Columns(m)

\* np.isclose(expected, flow) with expected = num / den: the tolerance is far
\* below the resolution of the model's numbers, and nan is close to nothing
IsClose(num, den, flow) == IsNum(flow) /\ flow * den = num

\* DataFrame column .loc[state], as the fraction value / 1
Loc(m, col, state) ==
    LET i == CHOOSE i \in 1..Len(m._setpoint.index) : m._setpoint.index[i] = state
    IN  <<Column(m, col)[i], 1>>

\* np.interp(state, xp, fp) for xp[1] <= state <= xp[n], as a fraction
Interp(m, col, state) ==
    LET xp == m._setpoint.index
        fp == Column(m, col)
    IN  IF Len(xp) = 1 THEN <<fp[1], 1>>
        ELSE LET i == CHOOSE i \in 1..(Len(xp) - 1) : xp[i] <= state /\ state <= xp[i + 1]
                 den == xp[i + 1] - xp[i]
             IN  <<fp[i] * den + (state - xp[i]) * (fp[i + 1] - fp[i]), den>>

\* lines 102-105: the checks of an off state
MachineOffError(m, mf) ==
    IF \E col \in Columns(m) : ~IsClose(0, 1, mf[col]) THEN "non-zero flow despite null setpoint"
    ELSE ""

\* lines 111-125: the checks of the state against the table and of the flows
MachineStateErrorAnyState(m, state, mf) ==
    IF m.discrete_setpoint /\ state \in Breakpoints(m)
    THEN IF \E col \in Columns(m) :
                ~IsClose(Loc(m, col, state)[1], Loc(m, col, state)[2], mf[col])
         THEN "flow expected" ELSE ""
    ELSE ""

MachineStateErrorAnyFlow(m, state, mf) ==
    IF m.discrete_setpoint
    THEN IF state \notin Breakpoints(m) THEN "Unsupported state" ELSE ""
    ELSE IF ~(m._setpoint.index[1] <= state /\ state <= Last(m._setpoint.index))
         THEN "Unsupported state" ELSE ""

MachineStateError(m, state, mf) ==
    IF m.discrete_setpoint
    THEN IF state \notin Breakpoints(m) THEN "Unsupported state"
         ELSE IF \E col \in Columns(m) :
                    ~IsClose(Loc(m, col, state)[1], Loc(m, col, state)[2], mf[col])
              THEN "flow expected" ELSE ""
    ELSE IF ~(m._setpoint.index[1] <= state /\ state <= Last(m._setpoint.index))
         THEN "Unsupported state"
         ELSE IF \E col \in Columns(m) :
                    ~IsClose(Interp(m, col, state)[1], Interp(m, col, state)[2], mf[col])
              THEN "flow expected" ELSE ""

\* Python slices of a list, seq[-k:] and seq[-k:-1]
Slice(seq, k) == SubSeq(seq, IF k >= Len(seq) THEN 1 ELSE Len(seq) - k + 1, Len(seq))
SliceButLast(seq, k) == SubSeq(seq, IF k >= Len(seq) THEN 1 ELSE Len(seq) - k + 1, Len(seq) - 1)

\* lines 130-138: the number of pairs (null, non-null) among the zipped slices
StartCount(m, state) ==
    LET t == IF m.max_starting[2] < Len(m._states) + 1
             THEN m.max_starting[2] ELSE Len(m._states) + 1
        states == <<NaN>> \o Slice(m._states, t) \o <<state>>
        s1 == SliceButLast(states, t + 1)
        s2 == Slice(states, t)
        n == IF Len(s1) < Len(s2) THEN Len(s1) ELSE Len(s2)
    IN  Cardinality({i \in 1..n : IsNull(s1[i]) /\ ~IsNull(s2[i])})

MachineStartErrorOffByOne(m, state) ==
    IF m.max_starting # NoMaxStarting /\ StartCount(m, state) > m.max_starting[1] + 1
    THEN "cannot be started" ELSE ""

MachineStartError(m, state) ==
    IF m.max_starting # NoMaxStarting /\ StartCount(m, state) > m.max_starting[1]
    THEN "cannot be started" ELSE ""

MachineStep(m, flows, state) ==
    LET mf == MachineFlows(m, flows)
    IN  IF MachineFlowsKeyError(m, flows) THEN Raise(m, "KeyError")
        ELSE IF IsNull(state)
            THEN IF MachineOffError(m, mf) # "" THEN Raise(m, MachineOffError(m, mf))
                 ELSE Ok([m EXCEPT !._states = Append(@, state)])
        ELSE IF MachineStateError(m, state, mf) # ""
            THEN Raise(m, MachineStateError(m, state, mf))
        ELSE IF MachineStartError(m, state) # ""
            THEN Raise(m, MachineStartError(m, state))
        ELSE Ok([m EXCEPT !._states = Append(@, state), !.current_state = None])

(* The machine harness: one machine 'm' with one in-edge and two out-edges *)
(* of the same commodity, driven by any sequence of update and step calls  *)
(* with any states and any flows.                                          *)

MachineSetpoint ==
    [index |-> <<1, 3>>, input |-> ("in" :> <<1, 3>>), output |-> ("out" :> <<0, 4>>)]

MachineFlowKeys == {<<"p", "m", "in">>, <<"m", "c1", "out">>, <<"m", "c2", "out">>}
MachineFlowSet ==
    {f \in [MachineFlowKeys -> {NaN, 0, 1, 2, 3}] :
        f[<<"m", "c1", "out">>] \in {0, 2} /\ f[<<"m", "c2", "out">>] \in {0, 2}}
MachineStates == {None, NaN, 0, 1, 2, 3, 4}
\* the states update is called with
MachinePendingStates == {NaN, 1, 2}

InitMachine ==
    /\ \E discrete \in BOOLEAN :
            nodes = ("m" :> Machine("m", MachineSetpoint, discrete, NoMaxStarting))
    /\ edges = <<>>
    /\ rng = 0
    /\ call = NoCall
    /\ run = NoRun

DoMachineUpdate ==
    /\ "m" \in DOMAIN nodes /\ nodes["m"].kind = "machine"
    /\ \E state \in MachinePendingStates :
         LET r == MachineUpdate(nodes["m"], state)
         IN  /\ nodes' = [nodes EXCEPT !["m"] = r.obj]
             /\ call' = [NoCall EXCEPT !.op = "Machine.update", !.key = "m",
                                       !.state = state, !.err = r.err]
    /\ UNCHANGED <<edges, rng, run>>

MachineStepWith(flows, state) ==
    LET r == MachineStep(nodes["m"], flows, state)
    IN  /\ nodes' = [nodes EXCEPT !["m"] = r.obj]
        /\ call' = [NoCall EXCEPT !.op = "Machine.step", !.key = "m",
                                  !.flows = flows, !.state = state, !.err = r.err]
        /\ UNCHANGED <<edges, rng, run>>

DoMachineStep ==
    /\ "m" \in DOMAIN nodes /\ nodes["m"].kind = "machine"
    /\ Len(nodes["m"]._states) < MaxMachineSteps
    /\ \E flows \in MachineFlowSet, state \in MachineStates : MachineStepWith(flows, state)

NextMachine == DoMachineUpdate \/ DoMachineStep

SpecMachine == InitMachine /\ [][NextMachine]_vars

(* The in-edge harness: the machine 'm' of the machine harness and one     *)
(* edge from 'a', which leads either to the machine or to a client 'c'.    *)
(* The machine is given the state of the step by its update, and the edge  *)
(* is given null and numeric flows by its own.                             *)

InEdgeFlowVals == {None, NaN, 0, FlowDen}

InitInEdge ==
    /\ \E discrete \in BOOLEAN :
            nodes = ("m" :> Machine("m", MachineSetpoint, discrete, NoMaxStarting))
    /\ \E destination \in {"m", "c"} :
            edges = (<<"a", destination>> :>
                        InternalEdge("a", destination, destination = "m",
                                     Horizon(MaxHorizon), 0, 2 * FlowDen, FALSE))
    /\ rng = 0
    /\ call = NoCall
    /\ run = NoRun

DoInEdgeUpdate ==
    /\ "m" \in DOMAIN nodes
    /\ \E k \in DOMAIN edges, flow \in InEdgeFlowVals :
         LET r == EdgeUpdate(edges[k], flow)
         IN  /\ edges' = [edges EXCEPT ![k] = r.obj]
             /\ call' = [NoCall EXCEPT !.op = "InternalEdge.update", !.key = k[2],
                                       !.state = flow, !.err = r.err]
    /\ UNCHANGED <<nodes, rng, run>>

NextInEdge == DoMachineUpdate \/ DoInEdgeUpdate

SpecInEdge == InitInEdge /\ [][NextInEdge]_vars

(* The starts harness: the same machine with a bound (N, T) on its starts, *)
(* driven with flows that agree with the state of each step, so that only  *)
(* the bound on the starts can reject a step.                              *)

MaxStartings == {<<1, 2>>, <<1, 3>>, <<2, 4>>, <<2, 5>>}
MachineStartStates == {NaN, 1, 2, 3}

MachineFlowsAgree(m, flows, state) ==
    IF IsNull(state) THEN MachineOffError(m, MachineFlows(m, flows)) = ""
    ELSE MachineStateError(m, state, MachineFlows(m, flows)) = ""

InitMachineStarts ==
    /\ \E discrete \in BOOLEAN, max_starting \in MaxStartings :
            nodes = ("m" :> Machine("m", MachineSetpoint, discrete, max_starting))
    /\ edges = <<>>
    /\ rng = 0
    /\ call = NoCall
    /\ run = NoRun

DoMachineStartsStep ==
    /\ "m" \in DOMAIN nodes /\ nodes["m"].kind = "machine"
    /\ Len(nodes["m"]._states) < MaxStartSteps
    /\ \E state \in MachineStartStates :
         \E flows \in {f \in MachineFlowSet : MachineFlowsAgree(nodes["m"], f, state)} :
            MachineStepWith(flows, state)

NextMachineStarts == DoMachineUpdate \/ DoMachineStartsStep

SpecMachineStarts == InitMachineStarts /\ [][NextMachineStarts]_vars

-----------------------------------------------------------------------------
(* InternalVarianceNode: src/ppsim/datatypes/node.py *)

InternalVarianceNode(name, horizon, predictions, variance) ==
    [kind |-> "variance", name |-> name, _horizon |-> horizon,
     _predictions |-> [i \in 1..Len(horizon) |-> [index |-> horizon[i], value |-> predictions[i]]],
     _variance_fn |-> variance, _values |-> <<>>, step |-> 0]

\* series[index]
GetItem(series, index) ==
    series[CHOOSE i \in 1..Len(series) : series[i].index = index].value

\* update where the variance function returned eps
VarianceNodeUpdate(n, eps) ==
    IF StepError(n) # "" THEN Raise(n, StepError(n))
    ELSE LET index == StepIndex(n)
             n1 == StepAdvance(n)
             value == GetItem(n._predictions, index) + eps
         IN  Ok([n1 EXCEPT !._values = SetItem(@, index, value)])

(* The variance-node harness: one node 'v' driven by any sequence of       *)
(* update calls.                                                           *)

VariancePredictions ==
    {[i \in 1..MaxHorizon |-> i], [i \in 1..MaxHorizon |-> MaxHorizon + 1 - i],
     [i \in 1..MaxHorizon |-> 2]}

InitVarianceNode ==
    /\ \E predictions \in VariancePredictions, variance \in {"zero", "random"} :
            nodes = ("v" :> InternalVarianceNode("v", Horizon(MaxHorizon), predictions, variance))
    /\ edges = <<>>
    /\ rng = 0
    /\ call = NoCall
    /\ run = NoRun

DoVarianceNodeUpdate ==
    /\ "v" \in DOMAIN nodes /\ nodes["v"].kind = "variance"
    /\ \E eps \in VarianceOutputs(nodes["v"]) :
         LET r == VarianceNodeUpdate(nodes["v"], eps)
             draws == IF r.err = "" THEN VarianceDraws(nodes["v"]) ELSE 0
         IN  /\ rng + draws <= MaxDraws
             /\ rng' = rng + draws
             /\ nodes' = [nodes EXCEPT !["v"] = r.obj]
             /\ call' = [NoCall EXCEPT !.op = "InternalVarianceNode.update", !.key = "v",
                                       !.err = r.err]
    /\ UNCHANGED <<edges, run>>

NextVarianceNode == DoVarianceNodeUpdate

SpecVarianceNode == InitVarianceNode /\ [][NextVarianceNode]_vars

-----------------------------------------------------------------------------
(* Plant.run: src/ppsim/plant/plant.py.  The function run_update that the  *)
(* loop calls is not among the sources; it is modelled as the two phases   *)
(* of the documented protocol: update on every node and every edge, then   *)
(* step on every node, the first raise ending the run.                     *)

RunNodeOrder == <<"sup", "cus">>
RunEdgeOrder == << <<"sup", "cus">> >>
RunCommodity == "com"
PlanCommodity == "in"

RECURSIVE RunUpdateNodes(_, _, _, _)
RunUpdateNodes(ns, order, step, eps) ==
    IF order = <<>> THEN [nodes |-> ns, err |-> ""]
    ELSE LET r == ExtremityUpdate(ns[Head(order)], step, eps[Head(order)])
             ns1 == [ns EXCEPT ![Head(order)] = r.obj]
         IN  IF r.err # "" THEN [nodes |-> ns1, err |-> r.err]
             ELSE RunUpdateNodes(ns1, Tail(order), step, eps)

RECURSIVE RunUpdateEdges(_, _, _)
RunUpdateEdges(es, order, flows) ==
    IF order = <<>> THEN [edges |-> es, err |-> ""]
    ELSE LET k == Head(order)
             r == EdgeUpdate(es[k], flows[<<k[1], k[2], RunCommodity>>])
             es1 == [es EXCEPT ![k] = r.obj]
         IN  IF r.err # "" THEN [edges |-> es1, err |-> r.err]
             ELSE RunUpdateEdges(es1, Tail(order), flows)

RECURSIVE RunStepNodes(_, _, _)
RunStepNodes(ns, order, flows) ==
    IF order = <<>> THEN [nodes |-> ns, err |-> ""]
    ELSE LET r == ExtremityStep(ns[Head(order)], flows)
             ns1 == [ns EXCEPT ![Head(order)] = r.obj]
         IN  IF r.err # "" THEN [nodes |-> ns1, err |-> r.err]
             ELSE RunStepNodes(ns1, Tail(order), flows)

RunUpdate(ns, es, step, flows, eps) ==
    LET norder == SelectSeq(RunNodeOrder, LAMBDA n : n \in DOMAIN ns)
        eorder == SelectSeq(RunEdgeOrder, LAMBDA k : k \in DOMAIN es)
        u == RunUpdateNodes(ns, norder, step, eps)
        ue == IF u.err = "" THEN RunUpdateEdges(es, eorder, flows)
              ELSE [edges |-> es, err |-> u.err]
        st == IF ue.err = "" THEN RunStepNodes(u.nodes, norder, flows)
              ELSE [nodes |-> u.nodes, err |-> ue.err]
    IN  [nodes |-> st.nodes, edges |-> ue.edges, err |-> st.err]

\* the plants of the run model: no entity at all, a supplier alone, and a
\* supplier feeding a customer through one edge
RunPredictions == [i \in 1..MaxRunHorizon |-> i * FlowDen]
RunSupplier == ExtremityNode("supplier", "sup", RunPredictions, "zero")
RunPlants ==
    {[nodes |-> <<>>, edges |-> <<>>],
     [nodes |-> ("sup" :> RunSupplier), edges |-> <<>>]}
    \cup {[nodes |-> ("sup" :> RunSupplier
                        @@ "cus" :> ExtremityNode("customer", "cus", RunPredictions, variance)),
           edges |-> (<<"sup", "cus">> :>
                        InternalEdge("sup", "cus", FALSE, Horizon(MaxRunHorizon),
                                     0, 2 * FlowDen, FALSE))] :
            variance \in {"zero", "random"}}

\* the flows the recourse action may return, one of them above every max_flow
RunFlows == [{<<k[1], k[2], RunCommodity>> : k \in DOMAIN edges} -> {0, FlowDen, 3 * FlowDen}]
RunEps == {eps \in [DOMAIN nodes -> {-1, 0, 1}] : \A n \in DOMAIN nodes : eps[n] \in VarianceOutputs(nodes[n])}
RECURSIVE RunDraws(_)
RunDraws(names) ==
    IF names = {} THEN 0
    ELSE LET n == CHOOSE n \in names : TRUE
         IN  VarianceDraws(nodes[n]) + RunDraws(names \ {n})

InitRun ==
    /\ \E plant \in RunPlants : nodes = plant.nodes /\ edges = plant.edges
    /\ rng = 0
    /\ call = NoCall
    /\ run = [NoRun EXCEPT !._horizon = Horizon(MaxRunHorizon)]

\* lines 523-526: a call of run enters the loop
PlantRunStart ==
    /\ run.pc = "idle" /\ run.calls < MaxRuns
    /\ run' = [run EXCEPT !.pc = "loop", !.step = 0, !.calls = @ + 1]
    /\ call' = [NoCall EXCEPT !.op = "Plant.run"]
    /\ UNCHANGED <<nodes, edges, rng>>

\* lines 527-532: one iteration of the loop
PlantRunStep ==
    /\ run.pc = "loop" /\ run.step < Len(run._horizon)
    /\ rng + RunDraws(DOMAIN nodes) <= MaxDraws
    /\ \E flows \in RunFlows, eps \in RunEps :
         LET r == RunUpdate(nodes, edges, run.step, flows, eps)
         IN  /\ nodes' = r.nodes
             /\ edges' = r.edges
             /\ call' = [NoCall EXCEPT !.op = "Plant.run", !.flows = flows, !.err = r.err]
             /\ run' = IF r.err # "" THEN [run EXCEPT !.pc = "idle"]
                       ELSE [run EXCEPT !.step = @ + 1]
    /\ rng' = rng + RunDraws(DOMAIN nodes)

\* line 533: the loop is over and run returns its output
PlantRunReturn ==
    /\ run.pc = "loop" /\ run.step = Len(run._horizon)
    /\ run' = [run EXCEPT !.pc = "idle", !.completed = @ + 1]
    /\ call' = [NoCall EXCEPT !.op = "Plant.run"]
    /\ UNCHANGED <<nodes, edges, rng>>

NextRun == PlantRunStart \/ PlantRunStep \/ PlantRunReturn

SpecRun == InitRun /\ [][NextRun]_vars

-----------------------------------------------------------------------------
(* check_plan and process_plan: src/ppsim/plant/execution.py               *)
(* A plan is a sequence of entries (key, value) in the order its items are *)
(* iterated in; a machine key is <<name>>, an edge key <<source, dest>>.   *)

\* key in machines / key in edges, for dictionaries keyed by name and by
\* (source, destination)
PlanMachineKeys(ns) == {<<n>> : n \in {n \in DOMAIN ns : ns[n].kind = "machine"}}
PlanEdgeKeys(es) == DOMAIN es

\* lines 120-134; machines and edges are the keys still to be found
RECURSIVE CheckPlanItems(_, _, _, _)
CheckPlanItems(items, machines, edgekeys, output) ==
    IF items = <<>>
    THEN IF machines # {} THEN [output EXCEPT !.err = "No states vector", !.named = machines]
         ELSE IF edgekeys # {} THEN [output EXCEPT !.err = "No flows vector", !.named = edgekeys]
         ELSE output
    ELSE LET key == Head(items).key
             value == Head(items).value
         IN  IF key \in machines
             THEN CheckPlanItems(Tail(items), machines \ {key}, edgekeys,
                                 [output EXCEPT !.states = @ @@ (key[1] :> value)])
             ELSE IF key \in edgekeys
             THEN CheckPlanItems(Tail(items), machines, edgekeys \ {key},
                                 [output EXCEPT !.flows = @ @@ (<<key[1], key[2], PlanCommodity>> :> value)])
             ELSE [output EXCEPT !.err = "is not present in the plant", !.named = {key}]

CheckPlanNoMissingEdges(plan, machines, edgekeys) ==
    LET r == CheckPlanItems(plan, machines, edgekeys,
                            [states |-> <<>>, flows |-> <<>>, err |-> "", named |-> {}])
    IN  IF r.err = "No flows vector" THEN [r EXCEPT !.err = "", !.named = {}] ELSE r

CheckPlan(plan, machines, edgekeys) ==
    CheckPlanItems(plan, machines, edgekeys,
                   [states |-> <<>>, flows |-> <<>>, err |-> "", named |-> {}])

\* a value of a dictionary plan: a list (sized) or a scalar, which is data[1]
Vector(sized, data) == [sized |-> sized, data |-> data]
\* isinstance(vector, Sized)
IsSized(vector) == vector.sized

\* lines 83-85: the first entry of a dictionary whose length is not the horizon's
RECURSIVE VectorError(_, _)
VectorError(items, horizon) ==
    IF items = <<>> THEN [err |-> "", named |-> {}]
    ELSE IF IsSized(Head(items).value) /\ Len(Head(items).value.data) # Len(horizon)
         THEN [err |-> "has length", named |-> {Head(items).key}]
         ELSE VectorError(Tail(items), horizon)

\* pd.Series(vector, index=horizon), line 86
AsSeries(vector, horizon) ==
    IF IsSized(vector) THEN vector.data ELSE [i \in 1..Len(horizon) |-> vector.data[1]]

\* Variant that checks the keys before the lengths of the vectors.
ProcessPlanKeysFirst(plan, machines, edgekeys, horizon) ==
    LET verr == IF plan.frame THEN [err |-> "", named |-> {}]
                ELSE VectorError(plan.items, horizon)
        items == [i \in 1..Len(plan.items) |->
                    [key |-> plan.items[i].key,
                     value |-> IF plan.frame THEN plan.items[i].value.data
                               ELSE AsSeries(plan.items[i].value, horizon)]]
        rows == IF plan.frame THEN plan.rows ELSE Len(horizon)
        checked == CheckPlan(items, machines, edgekeys)
    IN  IF checked.err # "" THEN [output |-> <<>>, err |-> checked.err, named |-> checked.named]
        ELSE IF verr.err # "" THEN [output |-> <<>>, err |-> verr.err, named |-> verr.named]
        ELSE [output |-> [i \in 1..rows |->
                            [states |-> [m \in DOMAIN checked.states |-> checked.states[m][i]],
                             flows |-> [e \in DOMAIN checked.flows |-> checked.flows[e][i]]]],
              err |-> "", named |-> {}]

\* lines 81-98; a plan is [frame, rows, items]: a dictionary (frame FALSE) or a
\* dataframe of `rows` rows whose columns are the items, each a list of `rows` values
ProcessPlan(plan, machines, edgekeys, horizon) ==
    LET verr == IF plan.frame THEN [err |-> "", named |-> {}]
                ELSE VectorError(plan.items, horizon)
        items == [i \in 1..Len(plan.items) |->
                    [key |-> plan.items[i].key,
                     value |-> IF plan.frame THEN plan.items[i].value.data
                               ELSE AsSeries(plan.items[i].value, horizon)]]
        rows == IF plan.frame THEN plan.rows ELSE Len(horizon)
        checked == CheckPlan(items, machines, edgekeys)
    IN  IF verr.err # "" THEN [output |-> <<>>, err |-> verr.err, named |-> verr.named]
        ELSE IF checked.err # "" THEN [output |-> <<>>, err |-> checked.err, named |-> checked.named]
        ELSE [output |-> [i \in 1..rows |->
                            [states |-> [m \in DOMAIN checked.states |-> checked.states[m][i]],
                             flows |-> [e \in DOMAIN checked.flows |-> checked.flows[e][i]]]],
              err |-> "", named |-> {}]

(* The plan harness: the plant of the run tests reduced to its supplier   *)
(* and its two machines, on which check_plan or process_plan is called    *)
(* once with a plan of at most MaxPlanKeys entries drawn at the start.    *)

PlanHorizon == Horizon(MaxHorizon)
PlanKeys ==
    {<<"mac_1">>, <<"mac_2">>, <<"sup", "mac_1">>, <<"sup", "mac_2">>,
     <<"mac">>, <<"sup", "mac">>}
PlanVectors ==
    {Vector(FALSE, <<1>>), Vector(TRUE, [i \in 1..MaxHorizon |-> i]),
     Vector(TRUE, [i \in 1..(MaxHorizon - 1) |-> i])}

\* the sequences of at most n entries with distinct keys and values in `values`
RECURSIVE PlanItems(_, _)
PlanItems(n, values) ==
    IF n = 0 THEN {<<>>}
    ELSE LET shorter == PlanItems(n - 1, values)
         IN  shorter \cup
             {Append(p, [key |-> k, value |-> v]) :
                <<p, k, v>> \in {t \in shorter \X PlanKeys \X values :
                    /\ Len(t[1]) = n - 1
                    /\ \A i \in 1..Len(t[1]) : t[1][i].key # t[2]}}

StepPlans == PlanItems(MaxPlanKeys, {1})
Plans ==
    {[frame |-> FALSE, rows |-> 0, items |-> p] : p \in PlanItems(MaxPlanKeys, PlanVectors)}
    \cup UNION {{[frame |-> TRUE, rows |-> r, items |-> p] :
                    p \in PlanItems(MaxPlanKeys, {Vector(TRUE, [j \in 1..r |-> j])})} :
                 r \in {MaxHorizon - 1, MaxHorizon}}

InitPlan ==
    /\ nodes = ("sup" :> ExtremityNode("supplier", "sup", [i \in 1..MaxHorizon |-> i], "zero")
                @@ "mac_1" :> Machine("mac_1", MachineSetpoint, FALSE, NoMaxStarting)
                @@ "mac_2" :> Machine("mac_2", MachineSetpoint, FALSE, NoMaxStarting))
    /\ edges = (<<"sup", "mac_1">> :>
                    InternalEdge("sup", "mac_1", TRUE, PlanHorizon, 0, 2 * FlowDen, FALSE)
                @@ <<"sup", "mac_2">> :>
                    InternalEdge("sup", "mac_2", TRUE, PlanHorizon, 0, 2 * FlowDen, FALSE))
    /\ rng = 0
    /\ \/ \E plan \in StepPlans : call = [NoCall EXCEPT !.key = "step plan", !.plan = plan]
       \/ \E plan \in Plans : call = [NoCall EXCEPT !.key = "plan", !.plan = plan]
    /\ run = [NoRun EXCEPT !._horizon = PlanHorizon]

DoCheckPlan ==
    /\ call.op = "init" /\ call.key = "step plan"
    /\ LET r == CheckPlan(call.plan, PlanMachineKeys(nodes), PlanEdgeKeys(edges))
       IN  call' = [call EXCEPT !.op = "check_plan", !.out = r, !.err = r.err]
    /\ UNCHANGED <<nodes, edges, rng, run>>

DoProcessPlan ==
    /\ call.op = "init" /\ call.key = "plan"
    /\ LET r == ProcessPlan(call.plan, PlanMachineKeys(nodes), PlanEdgeKeys(edges), run._horizon)
       IN  call' = [call EXCEPT !.op = "process_plan", !.out = r, !.err = r.err]
    /\ UNCHANGED <<nodes, edges, rng, run>>

NextPlan == DoCheckPlan \/ DoProcessPlan

SpecPlan == InitPlan /\ [][NextPlan]_vars

-----------------------------------------------------------------------------
(* Plant building: Plant._check_and_update and the add_* methods.          *)
(* A node is the record of what the plant reads from it: kind, name,       *)
(* commodity_in (NoCommodity for None), commodities_out and the two edge   *)
(* lists filled by InternalNode.append.  Plant._nodes maps a kind to the   *)
(* set of its nodes, Plant._edges is the set of edges (kept as a sequence  *)
(* of distinct objects, so that membership is decided by __eq__ and not by *)
(* the contents of the record), Plant._commodities the set of commodities. *)

NoCommodity == ""
NoParents == <<"None">>
Infinity == 1000000
BuildKinds == {"supplier", "client", "machine", "storage"}

PlantNode(kind, name, commodity_in, commodities_out) ==
    [kind |-> kind, name |-> name, commodity_in |-> commodity_in,
     commodities_out |-> commodities_out, _in_edges |-> <<>>, _out_edges |-> <<>>]

PlantEdge(source, destination, flow) ==
    [source |-> source.name, destination |-> destination.name,
     commodity |-> destination.commodity_in,
     min_flow |-> flow.min_flow, max_flow |-> flow.max_flow, integer |-> flow.integer]

\* InternalDataType.__eq__ / __hash__ on nodes: same key (the name), whatever
\* the kind, since InternalNode._instance accepts every InternalNode.
NodeIn(node, ns) == \E n \in ns : n.name = node.name

\* Plant.nodes(): every node of every kind.
PlantNodes(p) == UNION {p._nodes[k] : k \in DOMAIN p._nodes}

\* Variant that looks for the name among the nodes of the same kind only.
NameConflictSameKind(p, node) == {k \in {node.kind} : NodeIn(node, p._nodes[k])}

\* The kinds whose set already holds a node equal to the new one.
NameConflict(p, node) == {k \in DOMAIN p._nodes : NodeIn(node, p._nodes[k])}

\* InternalEdge.__post_init__.
EdgeError(source, destination, flow) ==
    IF flow.min_flow < 0 THEN "The minimum flow cannot be negative"
    ELSE IF flow.max_flow < flow.min_flow
    THEN "The maximum flow cannot be lower than the minimum"
    ELSE IF destination.commodity_in = NoCommodity
    THEN "does not accept any input commodity"
    ELSE IF destination.commodity_in \notin source.commodities_out
    THEN "should return commodity"
    ELSE ""

\* InternalNode.append (its raise needs an edge that does not touch the node,
\* which _check_and_update never passes).
NodeAppend(n, edge) ==
    IF edge.source = n.name THEN [n EXCEPT !._out_edges = Append(@, edge)]
    ELSE IF edge.destination = n.name THEN [n EXCEPT !._in_edges = Append(@, edge)]
    ELSE n

\* Variant of set.add that never finds an equal edge.
EdgesAddAlways(es, edge) == Append(es, edge)

\* self._edges.add(edge): InternalDataType.__eq__ on edges compares the keys
\* (source name, destination name).
EdgesAdd(es, edge) ==
    IF \E i \in 1..Len(es) :
          es[i].source = edge.source /\ es[i].destination = edge.destination
    THEN es
    ELSE Append(es, edge)

\* The loop over the parents of _check_and_update; the new node is already
\* in p._nodes when the parents are looked up.
RECURSIVE AddParents(_, _, _, _)
AddParents(p, name, parents, flow) ==
    IF parents = <<>> THEN [obj |-> p, err |-> "", named |-> <<>>]
    ELSE
    LET pname == Head(parents)
        node == CHOOSE n \in PlantNodes(p) : n.name = name
    IN  IF ~ \E n \in PlantNodes(p) : n.name = pname
        THEN [obj |-> p, err |-> "has not been added yet", named |-> <<pname>>]
        ELSE
        LET parent == CHOOSE n \in PlantNodes(p) : n.name = pname
            edge == PlantEdge(parent, node, flow)
            eerr == EdgeError(parent, node, flow)
            append(n) ==
                LET n1 == IF n.name = pname THEN NodeAppend(n, edge) ELSE n
                IN  IF n1.name = name THEN NodeAppend(n1, edge) ELSE n1
        IN  IF node.commodity_in \notin parent.commodities_out
            THEN [obj |-> p, err |-> "should return commodity", named |-> <<pname>>]
            ELSE IF eerr # ""
            THEN [obj |-> p, err |-> eerr, named |-> <<pname, name>>]
            ELSE AddParents(
                    [p EXCEPT !._edges = EdgesAdd(@, edge),
                              !._nodes = [k \in DOMAIN @ |-> {append(n) : n \in @[k]}]],
                    name, Tail(parents), flow)

\* Plant._check_and_update.
CheckAndUpdate(p, node, parents, flow) ==
    LET p1 == [p EXCEPT !._commodities =
                  @ \cup (IF node.commodity_in # NoCommodity
                          THEN {node.commodity_in} ELSE {})
                    \cup node.commodities_out]
        conflict == NameConflict(p1, node)
        p2 == [p1 EXCEPT !._nodes[node.kind] = @ \cup {node}]
    IN  IF conflict # {}
        THEN [obj |-> p1, err |-> "There is already a",
              named |-> <<CHOOSE k \in conflict : TRUE, node.name>>]
        ELSE IF parents = NoParents THEN [obj |-> p2, err |-> "", named |-> <<>>]
        ELSE IF Len(parents) = 0
        THEN [obj |-> p2, err |-> "must have at least one parent",
              named |-> <<node.kind>>]
        ELSE AddParents(p2, node.name, parents, flow)

\* Harness: a plant of up to two names over two commodities.
BuildNames == {"a", "b"}
BuildCommodities == {"x", "y"}
BuildParents == {<<>>, <<"a">>, <<"b">>, <<"a", "b">>, <<"a", "a">>}
BuildFlows ==
    {[min_flow |-> 0, max_flow |-> Infinity, integer |-> FALSE],
     [min_flow |-> 1, max_flow |-> 0, integer |-> FALSE]}

InitBuild ==
    /\ nodes = [k \in BuildKinds |-> {}]
    /\ edges = <<>>
    /\ rng = 0
    /\ call = [NoCall EXCEPT !.state = NoCommodity]
    /\ run = [_commodities |-> {}]

Build(op, node, parents, flow) ==
    LET r == CheckAndUpdate([_nodes |-> nodes, _edges |-> edges,
                             _commodities |-> run._commodities],
                            node, parents, flow)
    IN  /\ nodes' = r.obj._nodes
        /\ edges' = r.obj._edges
        /\ run' = [run EXCEPT !._commodities = r.obj._commodities]
        /\ call' = [call EXCEPT !.op = op, !.key = node.name,
                                !.state = node.commodity_in, !.plan = parents,
                                !.err = r.err, !.out = r.named]

AddSupplier ==
    \E name \in BuildNames, commodity \in BuildCommodities :
        /\ Build("add_supplier", PlantNode("supplier", name, NoCommodity, {commodity}),
              NoParents, [min_flow |-> None, max_flow |-> None, integer |-> FALSE])
        /\ UNCHANGED rng

AddClient ==
    \E name \in BuildNames, commodity \in BuildCommodities,
       parents \in BuildParents :
        /\ Build("add_client", PlantNode("client", name, commodity, {}), parents,
              [min_flow |-> 0, max_flow |-> Infinity, integer |-> FALSE])
        /\ UNCHANGED rng

AddMachine ==
    \E name \in BuildNames, commodity \in BuildCommodities,
       output \in BuildCommodities, parents \in BuildParents :
        /\ Build("add_machine", PlantNode("machine", name, commodity, {output}),
              parents, [min_flow |-> 0, max_flow |-> Infinity, integer |-> FALSE])
        /\ UNCHANGED rng

AddStorage ==
    \E name \in BuildNames, commodity \in BuildCommodities,
       parents \in BuildParents, flow \in BuildFlows :
        /\ Build("add_storage", PlantNode("storage", name, commodity, {commodity}),
              parents, flow)
        /\ UNCHANGED rng

NextBuild == AddSupplier \/ AddClient \/ AddMachine \/ AddStorage

SpecBuild == InitBuild /\ [][NextBuild]_vars

-----------------------------------------------------------------------------
(* Two runs of identically built plants.  Plant.run hands run_update the   *)
(* nodes in the order of Plant.nodes(), which iterates the set of each     *)
(* kind: that order follows the hashes of the nodes' names and is not the  *)
(* same in every process, so each of the two runs draws its own order.     *)
(* The generator is seeded, so the i-th number drawn in a run is a         *)
(* function of the seed and of i; a variance function that consults the    *)
(* generator returns the number it draws.                                  *)

MaxSeed == 2

\* np.random.default_rng(seed): the i-th draw of the generator
RngStream(seed, i) == ((seed * i) % 3) - 1

\* the orders in which Plant.nodes() may iterate the two customers
NodeOrders == {<<"c1", "c2">>, <<"c2", "c1">>}

\* the plant of both runs: two customers whose variance consults the generator
OrderPlants ==
    {("c1" :> ExtremityNode("customer", "c1", [i \in 1..MaxRunHorizon |-> d[1]], "random")
      @@ "c2" :> ExtremityNode("customer", "c2", [i \in 1..MaxRunHorizon |-> d[2]], "random")) :
        d \in {0, 1, 2} \X {0, 1, 2}}

\* one iteration of the loop of Plant.run for one of the two plants: every
\* node is updated in the plant's order, drawing its variance, then stepped
OrderRunUpdate(ns, order, r, seed) ==
    LET eps == [n \in DOMAIN ns |->
                   RngStream(seed, r.drawn + (CHOOSE i \in 1..Len(order) : order[i] = n))]
        u == RunUpdateNodes(ns, order, r.step, eps)
        st == IF u.err = "" THEN RunStepNodes(u.nodes, order, <<>>)
              ELSE [nodes |-> u.nodes, err |-> u.err]
    IN  IF r.pc # "loop" THEN [nodes |-> ns, run |-> r]
        ELSE IF r.step = MaxRunHorizon THEN [nodes |-> ns, run |-> [r EXCEPT !.pc = "done"]]
        ELSE [nodes |-> st.nodes,
              run |-> IF st.err # "" THEN [r EXCEPT !.pc = "raised", !.drawn = @ + Len(order)]
                      ELSE [r EXCEPT !.step = @ + 1, !.drawn = @ + Len(order)]]

InitOrder ==
    /\ \E plant \in OrderPlants : nodes = [A |-> plant, B |-> plant]
    /\ edges = <<>>
    /\ rng \in 0..MaxSeed
    /\ \E a \in NodeOrders, b \in NodeOrders :
          call = [NoCall EXCEPT !.op = "Plant.run", !.plan = [A |-> a, B |-> b]]
    /\ run = [A |-> [pc |-> "loop", step |-> 0, drawn |-> 0],
              B |-> [pc |-> "loop", step |-> 0, drawn |-> 0]]

\* both runs take their next iteration (or return)
OrderRunStep ==
    /\ run.A.pc = "loop" \/ run.B.pc = "loop"
    /\ LET a == OrderRunUpdate(nodes.A, call.plan.A, run.A, rng)
           b == OrderRunUpdate(nodes.B, call.plan.B, run.B, rng)
       IN  /\ nodes' = [A |-> a.nodes, B |-> b.nodes]
           /\ run' = [A |-> a.run, B |-> b.run]
    /\ UNCHANGED <<edges, rng, call>>

NextOrder == OrderRunStep

SpecOrder == InitOrder /\ [][NextOrder]_vars

-----------------------------------------------------------------------------
(* Getters of series and tables.  The objects live in a heap: nodes maps   *)
(* an object's identity to its contents, object InternalObject is the      *)
(* series the entity keeps, and a getter hands out the identity of the     *)
(* object it returns.  A getter that copies (Series.copy, DataFrame.copy,  *)
(* Index.copy, or a new Series built from a list) returns a new object     *)
(* with the same contents; a dataclass field read as an attribute returns  *)
(* the entity's own object.                                                *)

MaxObjects == 3
InternalObject == 1

Getters ==
    {"InternalEdge.flows", "Machine.states", "Machine.setpoint", "Storage.storage",
     "ExtremityNode.values", "Customer.demands", "Purchaser.prices",
     "InternalVarianceNode.predictions", "InternalVarianceNode.values",
     "Plant.horizon", "InternalSupplier.prices"}

\* InternalSupplier.prices is a field of the frozen dataclass: reading it
\* returns the stored series; every other getter builds a new object.
GetterReturnsSelf(getter) == getter = "InternalSupplier.prices"

\* the identity of the object a getter returns, given the heap
GetterObject(heap, getter) ==
    IF GetterReturnsSelf(getter) THEN InternalObject
    ELSE 1 + Cardinality(DOMAIN heap)

InitGetter ==
    /\ \E contents \in [1..2 -> {0, 1}] : nodes = (InternalObject :> contents)
    /\ edges = <<>>
    /\ rng = 0
    /\ \E getter \in Getters : call = [NoCall EXCEPT !.key = getter]
    /\ run = NoRun

\* a call of the getter: call.out lists the objects handed out so far
DoGet ==
    /\ 1 + Len(call.out) < MaxObjects
    /\ LET obj == GetterObject(nodes, call.key)
       IN  /\ nodes' = (obj :> nodes[InternalObject]) @@ nodes
           /\ call' = [call EXCEPT !.op = "get", !.out = Append(@, obj)]
    /\ UNCHANGED <<edges, rng, run>>

\* the caller writes into an object it was handed: series[index] = value
DoMutate ==
    /\ \E i \in 1..Len(call.out), index \in 1..2, value \in {0, 5} :
         /\ nodes' = [nodes EXCEPT ![call.out[i]][index] = value]
         /\ call' = [call EXCEPT !.op = "mutate", !.state = call.out[i]]
    /\ UNCHANGED <<edges, rng, run>>

NextGetter == DoGet \/ DoMutate

SpecGetter == InitGetter /\ [][NextGetter]_vars

-----------------------------------------------------------------------------
(* Equality and hashing of internal entities: InternalDataType.__eq__ and  *)
(* __hash__.  An entity is its class, its key (the name of a node, the     *)
(* names of source and destination of an edge, both written as tuples) and *)
(* the rest of its attributes, gathered in one field.                      *)

NodeClasses == {"Machine", "Storage"}

\* _instance: InternalNode accepts every node, the default accepts an
\* instance of the entity's own class
InternalInstance(a, b) ==
    IF a.class \in NodeClasses THEN b.class \in NodeClasses ELSE b.class = a.class

\* Variant that also compares the other attributes, as DataType.__eq__ does.
InternalEqAllFields(a, b) == InternalInstance(a, b) /\ a.key = b.key /\ a.attrs = b.attrs

InternalEq(a, b) == InternalInstance(a, b) /\ a.key = b.key

\* hash(key): some function of the key alone, with collisions
KeyHash(key) == IF key \in {<<"m">>, <<"m", "s">>} THEN 1 ELSE 2
InternalHash(a) == KeyHash(a.key)

EqEntities ==
    {[class |-> c, key |-> k, attrs |-> x] :
        c \in NodeClasses, k \in {<<"m">>, <<"md">>}, x \in {0, 1}}
    \cup {[class |-> "InternalEdge", key |-> k, attrs |-> x] :
            k \in {<<"m", "s">>, <<"m", "t">>}, x \in {0, 1}}

InitEq ==
    /\ nodes = <<>> /\ edges = <<>> /\ rng = 0 /\ run = NoRun
    /\ \E a \in EqEntities, b \in EqEntities : call = [NoCall EXCEPT !.plan = <<a, b>>]

\* a == b, b == a, hash(a), hash(b)
DoCompare ==
    /\ call.op = "init"
    /\ LET a == call.plan[1]
           b == call.plan[2]
       IN  call' = [call EXCEPT !.op = "__eq__",
                                !.out = [eq |-> InternalEq(a, b), qe |-> InternalEq(b, a),
                                         hash |-> <<InternalHash(a), InternalHash(b)>>]]
    /\ UNCHANGED <<nodes, edges, rng, run>>

NextEq == DoCompare

SpecEq == InitEq /\ [][NextEq]_vars

-----------------------------------------------------------------------------
\* execution.build_output (src/ppsim/plant/execution.py lines 137-168), applied
\* by Plant.run (plant.py line 533) to the nodes and edges of a finished run.

MaxOutHorizon == 2

\* an edge of a finished run: its key fields and the committed flows
OutputEdge(source, destination, commodity, flows) ==
    [source |-> source, destination |-> destination, commodity |-> commodity,
     _flows |-> flows]

\* edge.simple_key: the label of the edge's column, which the test of the output
\* gives as (source, destination, commodity)
SimpleKey(e) == <<e.source, e.destination, e.commodity>>

\* pd.Series(list, index=horizon[:len(list)]): the getters states, storage, values
ListSeries(values, horizon) ==
    [i \in 1..Len(values) |-> [index |-> horizon[i], value |-> values[i]]]

\* pd.DataFrame(index=horizon, dtype=float)
DataFrame(horizon) == [index |-> horizon, columns |-> <<>>]

\* frame[label] = series: the series is aligned on the index of the frame,
\* labels it does not have are nan
SetColumn(frame, label, series) ==
    LET column == [i \in 1..Len(frame.index) |->
                      IF frame.index[i] \in SeriesLabels(series)
                      THEN GetItem(series, frame.index[i]) ELSE NaN]
    IN  [frame EXCEPT !.columns = (label :> column) @@ frame.columns]

SimulationOutput(horizon) ==
    [flows |-> DataFrame(horizon), states |-> DataFrame(horizon),
     storage |-> DataFrame(horizon), demands |-> DataFrame(horizon),
     buying_prices |-> DataFrame(horizon), sell_prices |-> DataFrame(horizon)]

OutputTables == DOMAIN SimulationOutput(<<>>)

\* Variant that tests for a client before telling customers from purchasers.
OutputTableClientFirst(node) ==
    CASE node.kind = "machine" -> "states"
      [] node.kind = "storage" -> "storage"
      [] node.kind \in {"customer", "purchaser"} -> "demands"
      [] node.kind = "supplier" -> "sell_prices"
      [] OTHER -> ""

\* the isinstance chain of lines 156-167; "" is the raising else branch
OutputTable(node) ==
    CASE node.kind = "machine" -> "states"
      [] node.kind = "storage" -> "storage"
      [] node.kind = "customer" -> "demands"
      [] node.kind = "purchaser" -> "buying_prices"
      [] node.kind = "supplier" -> "sell_prices"
      [] OTHER -> ""

\* node.states, node.storage, node.values
Committed(node) ==
    CASE node.kind = "machine" -> node._states
      [] node.kind = "storage" -> node._storage
      [] OTHER -> node._values

RECURSIVE OutputFlows(_, _)
OutputFlows(output, es) ==
    IF es = {} THEN output
    ELSE LET e == CHOOSE x \in es : TRUE
         IN  OutputFlows([output EXCEPT !.flows = SetColumn(@, SimpleKey(e), e._flows)],
                         es \ {e})

RECURSIVE OutputNodes(_, _)
OutputNodes(res, ns) ==
    IF ns = {} \/ res.err # "" THEN res
    ELSE LET n == CHOOSE x \in ns : TRUE
             table == OutputTable(n)
         IN  IF table = "" THEN Raise(res.obj, "Unknown node type")
             ELSE OutputNodes(
                    Ok([res.obj EXCEPT ![table] =
                          SetColumn(@, n.name, ListSeries(Committed(n), res.obj.flows.index))]),
                    ns \ {n})

BuildOutput(ns, es, horizon) ==
    OutputNodes(Ok(OutputFlows(SimulationOutput(horizon), es)), ns)

\* The plants the output is built for: any of five nodes, one per kind, and any
\* of the edges between those present, each with one committed value per step.
OutputKinds ==
    [sup |-> "supplier", mac |-> "machine", sto |-> "storage",
     cus |-> "customer", pur |-> "purchaser"]

OutputPairs ==
    {<<"sup", "mac", "in">>, <<"mac", "sto", "out">>, <<"mac", "cus", "out">>,
     <<"sto", "cus", "out">>, <<"sto", "pur", "out">>}

FinishedNode(name, horizon, base, off) ==
    LET kind == OutputKinds[name]
        vals == [i \in 1..Len(horizon) |-> base + i]
    IN  CASE kind = "machine" ->
               [Machine(name, MachineSetpoint, TRUE, NoMaxStarting)
                  EXCEPT !._states = IF off THEN [i \in 1..Len(horizon) |-> NaN] ELSE vals]
          [] kind = "storage" ->
               [Storage(name, horizon, 10 * DissDen, 0, 10 * DissDen, 10 * DissDen)
                  EXCEPT !._storage = vals]
          [] OTHER ->
               [ExtremityNode(kind, name, vals, "zero") EXCEPT !._values = vals]

InitOutput ==
    /\ \E h \in 1..MaxOutHorizon, present \in SUBSET (DOMAIN OutputKinds),
          base \in {0, 1}, off \in BOOLEAN :
         /\ present # {}
         /\ nodes = [n \in present |-> FinishedNode(n, Horizon(h), base, off)]
         /\ \E pairs \in SUBSET {p \in OutputPairs : p[1] \in present /\ p[2] \in present} :
              edges = [k \in {<<p[1], p[2]>> : p \in pairs} |->
                         LET p == CHOOSE q \in pairs : <<q[1], q[2]>> = k
                         IN  OutputEdge(p[1], p[2], p[3],
                                        ListSeries([i \in 1..h |-> base * i], Horizon(h)))]
         /\ run = [horizon |-> Horizon(h)]
    /\ rng = 0
    /\ call = NoCall

\* line 533 of Plant.run
DoBuildOutput ==
    /\ call.op = "init"
    /\ LET res == BuildOutput({nodes[n] : n \in DOMAIN nodes},
                              {edges[k] : k \in DOMAIN edges}, run.horizon)
       IN  call' = [call EXCEPT !.op = "build_output", !.out = res.obj, !.err = res.err]
    /\ UNCHANGED <<nodes, edges, rng, run>>

NextOutput == DoBuildOutput

SpecOutput == InitOutput /\ [][NextOutput]_vars

-----------------------------------------------------------------------------
\* Plant.edges (src/ppsim/plant/plant.py lines 83-111) and
\* utils.get_filtering_function (src/ppsim/utils/matching.py lines 4-21).
\* A Python string is the sequence of its characters, and a character is a
\* string of length one.

Str(chars) == [type |-> "str", chars |-> chars, items |-> {}]
List(items) == [type |-> "list", chars |-> <<>>, items |-> items]
NoInput == [type |-> "None", chars |-> <<>>, items |-> {}]

\* isinstance(user_input, Iterable): a string is iterable too
IsIterable(user_input) == user_input.type \in {"str", "list"}

\* set(user_input): the items of a collection, the characters of a string
SetOf(user_input) ==
    IF user_input.type = "str"
    THEN {<<user_input.chars[i]>> : i \in 1..Len(user_input.chars)}
    ELSE user_input.items

\* get_filtering_function(user_input)(d)
FilteringFunction(user_input, d) ==
    IF user_input.type = "None" THEN TRUE
    ELSE IF IsIterable(user_input) THEN d \in SetOf(user_input)
    ELSE d = user_input.chars

\* Plant.edges
PlantEdges(es, sources, destinations, commodities) ==
    {e \in es : /\ FilteringFunction(sources, e.source)
                /\ FilteringFunction(destinations, e.destination)
                /\ FilteringFunction(commodities, e.commodity)}

\* the plant of the test: supplier s, machine ma, storage st, client c
FilterNames == {<<"s">>, <<"m", "a">>, <<"s", "t">>, <<"c">>}
FilterCommodities == {<<"i">>, <<"o", "u">>}
FilterEdges ==
    {[source |-> <<"s">>, destination |-> <<"m", "a">>, commodity |-> <<"i">>],
     [source |-> <<"m", "a">>, destination |-> <<"s", "t">>, commodity |-> <<"o", "u">>],
     [source |-> <<"m", "a">>, destination |-> <<"c">>, commodity |-> <<"o", "u">>],
     [source |-> <<"s", "t">>, destination |-> <<"c">>, commodity |-> <<"o", "u">>]}

NameInputs ==
    {NoInput} \cup {Str(n) : n \in FilterNames}
              \cup {List(l) : l \in {{}, {<<"s">>, <<"m", "a">>}, {<<"m", "a">>, <<"c">>}}}
CommodityInputs ==
    {NoInput} \cup {Str(c) : c \in FilterCommodities} \cup {List({<<"i">>})}

InitFilter ==
    /\ nodes = FilterNames
    /\ edges \in (SUBSET FilterEdges) \ {{}}
    /\ rng = 0
    /\ run = <<>>
    /\ \E s \in NameInputs, d \in {NoInput, Str(<<"c">>), List({<<"m", "a">>, <<"c">>})},
          c \in CommodityInputs :
         call = [NoCall EXCEPT !.plan = [sources |-> s, destinations |-> d, commodities |-> c]]

DoEdges ==
    /\ call.op = "init"
    /\ call' = [call EXCEPT !.op = "edges",
                            !.out = PlantEdges(edges, call.plan.sources,
                                               call.plan.destinations, call.plan.commodities)]
    /\ UNCHANGED <<nodes, edges, rng, run>>

NextFilter == DoEdges

SpecFilter == InitFilter /\ [][NextFilter]_vars

-----------------------------------------------------------------------------
\* The checks made at construction: Storage.__post_init__
\* (src/ppsim/datatypes/storage.py lines 34-39), Machine.__post_init__
\* (src/ppsim/datatypes/machine.py lines 33-53) and InternalEdge.__post_init__
\* (src/ppsim/datatypes/edge.py lines 78-81). A comparison with nan is false.

Ge(a, b) == a # NaN /\ b # NaN /\ a >= b
Gt(a, b) == a # NaN /\ b # NaN /\ a > b

StoragePostInit(s) ==
    IF ~ Gt(s.charge_rate, 0) THEN "Charge rate should be strictly positive"
    ELSE IF ~ Gt(s.discharge_rate, 0) THEN "Discharge rate should be strictly positive"
    ELSE IF ~ Gt(s.capacity, 0) THEN "Capacity should be strictly positive"
    ELSE IF ~ (Ge(s.dissipation, 0) /\ Ge(DissDen, s.dissipation))
    THEN "Dissipation should be in range [0, 1]"
    ELSE ""

\* DataFrame.sort_index: the rows by increasing label, nan labels last
SortIndex(setpoint) ==
    LET n == Len(setpoint.index)
        Before(a, b) == b = NaN \/ (a # NaN /\ a <= b)
        p == CHOOSE q \in [1..n -> 1..n] :
                /\ \A i, j \in 1..n : i # j => q[i] # q[j]
                /\ \A i \in 1..n - 1 :
                      /\ Before(setpoint.index[q[i]], setpoint.index[q[i + 1]])
                      /\ (setpoint.index[q[i]] = setpoint.index[q[i + 1]] => q[i] < q[i + 1])
        Sorted(column) == [i \in 1..n |-> column[p[i]]]
    IN  [index |-> Sorted(setpoint.index),
         input |-> [c \in DOMAIN setpoint.input |-> Sorted(setpoint.input[c])],
         output |-> [c \in DOMAIN setpoint.output |-> Sorted(setpoint.output[c])]]

\* Series.min: the smallest value that is not nan, nan when there is none
SeriesMin(column) ==
    LET nums == {column[i] : i \in 1..Len(column)} \ {NaN}
    IN  IF nums = {} THEN NaN ELSE CHOOSE v \in nums : \A w \in nums : v <= w

\* the columns of the model are always ('input'|'output', commodity) tuples
MachinePostInit(m) ==
    LET sp == m._setpoint
        columns == {sp.input[c] : c \in DOMAIN sp.input}
                     \cup {sp.output[c] : c \in DOMAIN sp.output}
    IN  IF ~ Ge(sp.index[1], 0) THEN "Setpoints should be non-negative"
        ELSE IF \E column \in columns : ~ Ge(SeriesMin(column), 0)
        THEN "Setpoint flows should be non-negative"
        ELSE IF m.max_starting # NoMaxStarting /\ ~ (m.max_starting[1] > 0)
        THEN "The number of starting must be a strictly positive integer"
        ELSE IF m.max_starting # NoMaxStarting /\ ~ (m.max_starting[1] < m.max_starting[2])
        THEN "The number of starting must be strictly less than the number of time steps"
        ELSE IF ~ Ge(m.cost, 0) THEN "The operating cost of the machine must be non-negative"
        ELSE ""

\* the objects construction is tried on
NewStorages ==
    {Storage("s", Horizon(1), capacity, dissipation, charge_rate, discharge_rate) :
        capacity \in {NaN, -1, 0, 1}, dissipation \in {NaN, -1, 0, DissDen, DissDen + 1},
        charge_rate \in {NaN, -1, 0, 1}, discharge_rate \in {NaN, 0, 1}}

NewSetpoints ==
    {[index |-> index, input |-> ("in" :> index), output |-> ("out" :> out)] :
        index \in [1..2 -> {NaN, -1, 0, 1}], out \in [1..2 -> {NaN, -1, 0, 1}]}

NewMachines ==
    {[cost |-> cost] @@ Machine("m", setpoint, FALSE, max_starting) :
        setpoint \in NewSetpoints, cost \in {NaN, -1, 0, 1},
        max_starting \in {NoMaxStarting, <<0, 2>>, <<1, 2>>, <<2, 2>>, <<3, 2>>}}

NewEdges ==
    {[class |-> "InternalEdge", min_flow |-> min_flow, max_flow |-> max_flow,
      integer |-> FALSE] :
        min_flow \in {NaN, -1, 0, 1}, max_flow \in {NaN, -1, 0, 1, Infinity}}

InitNew ==
    /\ nodes = <<>>
    /\ edges = <<>>
    /\ rng = 0
    /\ run = <<>>
    /\ \E new \in [class : {"Storage"}, obj : NewStorages]
                  \cup [class : {"Machine"}, obj : NewMachines]
                  \cup [class : {"InternalEdge"}, obj : NewEdges] :
         call = [NoCall EXCEPT !.plan = new]

\* the constructor: sorts the setpoint of a machine, then checks
PostInit(class, obj) ==
    CASE class = "Storage" -> Raise(obj, StoragePostInit(obj))
      [] class = "Machine" ->
           LET m == [obj EXCEPT !._setpoint = SortIndex(@)]
           IN  Raise(m, MachinePostInit(m))
      [] OTHER ->
           Raise(obj, EdgeError(PlantNode("supplier", "a", NoCommodity, {"x"}),
                                PlantNode("client", "b", "x", {}), obj))

DoPostInit ==
    /\ call.op = "init"
    /\ LET res == PostInit(call.plan.class, call.plan.obj)
       IN  /\ call' = [call EXCEPT !.op = "__post_init__", !.err = res.err]
           /\ nodes' = IF res.err = "" THEN <<res.obj>> ELSE <<>>
    /\ UNCHANGED <<edges, rng, run>>

NextNew == DoPostInit

SpecNew == InitNew /\ [][NextNew]_vars

-----------------------------------------------------------------------------
\* Plant.copy (src/ppsim/plant/plant.py lines 133-139). The attributes of a
\* plant are references to mutable objects; the heap maps a reference to the
\* object's value. The simulation side of the nodes and edges (predictions,
\* histories, pending values) is kept in one cell of its own.

MaxCopyOps == 3

PlantAttributes == <<"_nodes", "_edges", "_commodities", "_rng", "_sim">>
AttributeIndex(a) == CHOOSE i \in 1..Len(PlantAttributes) : PlantAttributes[i] = a

\* the references held by the first plant allocated on a heap
NewPlantObject(heap) == [a \in {"_nodes", "_edges", "_commodities", "_rng", "_sim"} |->
                            Len(heap) + AttributeIndex(a)]
NoPlant == [a \in {"_nodes", "_edges", "_commodities", "_rng", "_sim"} |-> 0]

\* Variant copy.copy: a new plant holding the same references.
ShallowCopy(p, heap) == [obj |-> p, heap |-> heap]

\* copy.deepcopy(self): every object reachable from the plant is copied
DeepCopy(p, heap) ==
    [obj |-> NewPlantObject(heap),
     heap |-> heap \o [i \in 1..Len(PlantAttributes) |-> heap[p[PlantAttributes[i]]]]]

\* the value of a plant: what its references point to
Deref(p, heap) == [a \in DOMAIN p |-> heap[p[a]]]
Store(p, heap, value) ==
    [i \in 1..Len(heap) |->
        IF \E a \in DOMAIN p : p[a] = i
        THEN value[CHOOSE a \in DOMAIN p : p[a] = i] ELSE heap[i]]

\* Plant.__init__
EmptyPlant ==
    [_nodes |-> [k \in BuildKinds |-> {}], _edges |-> <<>>, _commodities |-> {},
     _rng |-> 0, _sim |-> [nodes |-> <<>>, edges |-> <<>>, step |-> 0]]

\* add_supplier / add_client: _check_and_update on the structure, and the new
\* node and edge objects with their empty histories
PlantAdd(v, node, parents) ==
    LET r == CheckAndUpdate([_nodes |-> v._nodes, _edges |-> v._edges,
                             _commodities |-> v._commodities], node, parents,
                            [min_flow |-> 0, max_flow |-> 2 * FlowDen, integer |-> FALSE])
        names == {n.name : n \in PlantNodes(r.obj)}
        keys == {<<r.obj._edges[i].source, r.obj._edges[i].destination>> :
                    i \in 1..Len(r.obj._edges)}
        kind(n) == IF n = node.name /\ node.kind = "client" THEN "customer" ELSE "supplier"
    IN  [v EXCEPT !._nodes = r.obj._nodes, !._edges = r.obj._edges,
                  !._commodities = r.obj._commodities,
                  !._sim.nodes = [n \in names |->
                      IF n \in DOMAIN v._sim.nodes THEN v._sim.nodes[n]
                      ELSE ExtremityNode(kind(n), n, RunPredictions, "random")],
                  !._sim.edges = [k \in keys |->
                      IF k \in DOMAIN v._sim.edges THEN v._sim.edges[k]
                      ELSE InternalEdge(k[1], k[2], FALSE, Horizon(MaxRunHorizon),
                                        0, 2 * FlowDen, FALSE)]]

\* one iteration of the loop of Plant.run (lines 527-532): every variance
\* function draws once from the generator of the plant
PlantStep(v, flow, eps) ==
    LET r == RunUpdate(v._sim.nodes, v._sim.edges, v._sim.step,
                       [k \in {<<e[1], e[2], RunCommodity>> : e \in DOMAIN v._sim.edges}
                          |-> flow],
                       [n \in DOMAIN v._sim.nodes |-> eps])
    IN  [v EXCEPT !._sim = [nodes |-> r.nodes, edges |-> r.edges,
                            step |-> IF r.err = "" THEN @.step + 1 ELSE @.step],
                  !._rng = @ + Cardinality(DOMAIN v._sim.nodes)]

\* a number drawn from the generator of the plant
PlantDraw(v) == [v EXCEPT !._rng = @ + 1]

CopySupplier == PlantNode("supplier", "sup", NoCommodity, {RunCommodity})
CopyClient == PlantNode("client", "cus", RunCommodity, {})

\* the original plants: empty, a supplier, a supplier feeding a client, and
\* the last one after the first step of a run
CopyOriginals ==
    LET sup == PlantAdd(EmptyPlant, CopySupplier, NoParents)
        cus == PlantAdd(sup, CopyClient, <<"sup">>)
    IN  {EmptyPlant, sup, cus, PlantStep(cus, FlowDen, 0)}

InitCopy ==
    /\ \E v \in CopyOriginals : nodes = [i \in 1..Len(PlantAttributes) |-> v[PlantAttributes[i]]]
    /\ edges = <<>>
    /\ rng = 0
    /\ call = NoCall
    /\ run = [original |-> NewPlantObject(<<>>), copy |-> NoPlant, ops |-> 0]

DoCopy ==
    /\ run.copy = NoPlant
    /\ LET r == DeepCopy(run.original, nodes)
       IN  /\ nodes' = r.heap
           /\ run' = [run EXCEPT !.copy = r.obj]
    /\ call' = [NoCall EXCEPT !.op = "copy"]
    /\ UNCHANGED <<edges, rng>>

\* an operation applied to the copy
OnCopy(op, value) ==
    /\ run.copy # NoPlant /\ run.ops < MaxCopyOps
    /\ nodes' = Store(run.copy, nodes, value)
    /\ run' = [run EXCEPT !.ops = @ + 1]
    /\ call' = [NoCall EXCEPT !.op = op]
    /\ UNCHANGED edges

CopyAddSupplier ==
    /\ OnCopy("add_supplier", PlantAdd(Deref(run.copy, nodes), CopySupplier, NoParents))
    /\ UNCHANGED rng

CopyAddClient ==
    /\ \E parents \in {<<"sup">>, <<"cus">>} :
          OnCopy("add_client", PlantAdd(Deref(run.copy, nodes), CopyClient, parents))
    /\ UNCHANGED rng

CopyRunStep ==
    /\ run.copy # NoPlant
    /\ Deref(run.copy, nodes)._sim.step < MaxRunHorizon
    /\ \E flow \in {FlowDen, 3 * FlowDen}, eps \in {0, 1} :
          OnCopy("run", PlantStep(Deref(run.copy, nodes), flow, eps))
    /\ UNCHANGED rng

CopyDraw ==
    /\ OnCopy("draw", PlantDraw(Deref(run.copy, nodes)))
    /\ UNCHANGED rng

NextCopy == DoCopy \/ CopyAddSupplier \/ CopyAddClient \/ CopyRunStep \/ CopyDraw

SpecCopy == InitCopy /\ [][NextCopy]_vars

-----------------------------------------------------------------------------
\* The loop of Plant.run (src/ppsim/plant/plant.py lines 527-533) with every
\* call it makes as an event of its own: the recourse action, then, inside
\* run_update, the update of each entity and the step of each node. The calls
\* made so far are logged in call.out.

Event(ev, who, t) == [ev |-> ev, who |-> who, t |-> t]

Entities == {<<n>> : n \in DOMAIN nodes} \cup DOMAIN edges

\* Variant that lets the step phase begin once one entity is updated.
CanStepEarly(r) == r.updated # {}

\* run_update steps the nodes once every entity has been updated
CanStep(r) == r.updated = Entities

InitLoop ==
    /\ \E plant \in {p \in RunPlants : DOMAIN p.nodes # {}} :
          nodes = plant.nodes /\ edges = plant.edges
    /\ rng = 0
    /\ call = NoCall
    /\ run = [pc |-> "idle", step |-> 0, updated |-> {}, stepped |-> {},
              _horizon |-> Horizon(MaxRunHorizon)]

\* lines 523-526
LoopStart ==
    /\ run.pc = "idle"
    /\ run' = [run EXCEPT !.pc = "recourse"]
    /\ call' = [NoCall EXCEPT !.op = "Plant.run"]
    /\ UNCHANGED <<nodes, edges, rng>>

\* line 531: flows = action_fn(step, graph)
LoopRecourse ==
    /\ run.pc = "recourse" /\ run.step < Len(run._horizon)
    /\ \E flows \in RunFlows :
          call' = [call EXCEPT !.op = "action_fn", !.flows = flows,
                               !.out = Append(@, Event("recourse", <<>>, run.step))]
    /\ run' = [run EXCEPT !.pc = "run_update", !.updated = {}, !.stepped = {}]
    /\ UNCHANGED <<nodes, edges, rng>>

\* line 532, first phase: node.update
LoopUpdateNode ==
    /\ run.pc = "run_update"
    /\ \E n \in DOMAIN nodes, eps \in {-1, 0, 1} :
         /\ <<n>> \notin run.updated
         /\ eps \in VarianceOutputs(nodes[n])
         /\ LET r == ExtremityUpdate(nodes[n], run.step, eps)
            IN  /\ nodes' = [nodes EXCEPT ![n] = r.obj]
                /\ call' = [call EXCEPT !.op = "update", !.err = r.err,
                                        !.out = Append(@, Event("update", <<n>>, run.step))]
                /\ run' = IF r.err # "" THEN [run EXCEPT !.pc = "raised"]
                          ELSE [run EXCEPT !.updated = @ \cup {<<n>>}]
         /\ rng' = rng + VarianceDraws(nodes[n])
    /\ UNCHANGED edges

\* line 532, first phase: edge.update
LoopUpdateEdge ==
    /\ run.pc = "run_update"
    /\ \E k \in DOMAIN edges :
         /\ k \notin run.updated
         /\ LET r == EdgeUpdate(edges[k], call.flows[<<k[1], k[2], RunCommodity>>])
            IN  /\ edges' = [edges EXCEPT ![k] = r.obj]
                /\ call' = [call EXCEPT !.op = "update", !.err = r.err,
                                        !.out = Append(@, Event("update", k, run.step))]
                /\ run' = IF r.err # "" THEN [run EXCEPT !.pc = "raised"]
                          ELSE [run EXCEPT !.updated = @ \cup {k}]
    /\ UNCHANGED <<nodes, rng>>

\* Variant of the step phase that goes on after a step that raised.
LoopStepNodeSwallowing ==
    /\ run.pc = "run_update" /\ CanStep(run)
    /\ \E n \in DOMAIN nodes :
         /\ n \notin run.stepped
         /\ LET r == ExtremityStep(nodes[n], call.flows)
                stepped == run.stepped \cup {n}
            IN  /\ nodes' = [nodes EXCEPT ![n] = r.obj]
                /\ call' = [call EXCEPT !.op = "step", !.err = r.err,
                                        !.out = Append(@, Event("step", <<n>>, run.step))]
                /\ run' = IF stepped = DOMAIN nodes
                          THEN [run EXCEPT !.pc = "recourse", !.step = @ + 1,
                                           !.stepped = stepped]
                          ELSE [run EXCEPT !.stepped = stepped]
    /\ UNCHANGED <<edges, rng>>

\* line 532, second phase: node.step; after the last one the loop goes on
LoopStepNode ==
    /\ run.pc = "run_update" /\ CanStep(run)
    /\ \E n \in DOMAIN nodes :
         /\ n \notin run.stepped
         /\ LET r == ExtremityStep(nodes[n], call.flows)
                stepped == run.stepped \cup {n}
            IN  /\ nodes' = [nodes EXCEPT ![n] = r.obj]
                /\ call' = [call EXCEPT !.op = "step", !.err = r.err,
                                        !.out = Append(@, Event("step", <<n>>, run.step))]
                /\ run' = IF r.err # "" THEN [run EXCEPT !.pc = "raised"]
                          ELSE IF stepped = DOMAIN nodes
                          THEN [run EXCEPT !.pc = "recourse", !.step = @ + 1,
                                           !.stepped = stepped]
                          ELSE [run EXCEPT !.stepped = stepped]
    /\ UNCHANGED <<edges, rng>>

\* line 533
LoopReturn ==
    /\ run.pc = "recourse" /\ run.step = Len(run._horizon)
    /\ run' = [run EXCEPT !.pc = "done"]
    /\ call' = [call EXCEPT !.op = "return"]
    /\ UNCHANGED <<nodes, edges, rng>>

NextLoop ==
    LoopStart \/ LoopRecourse \/ LoopUpdateNode \/ LoopUpdateEdge \/ LoopStepNode
        \/ LoopReturn

SpecLoop == InitLoop /\ [][NextLoop]_vars

-----------------------------------------------------------------------------
(* C1: every level in a storage's history is within [0, capacity], and a   *)
(* step whose resulting level (pending amount + input - output) would be   *)
(* negative or above the capacity raises and leaves the history as it was. *)

StorageLevelsInRange ==
    \A n \in DOMAIN nodes : nodes[n].kind = "storage" =>
        \A i \in 1..Len(nodes[n]._storage) :
            0 <= nodes[n]._storage[i] /\ nodes[n]._storage[i] <= nodes[n].capacity

StorageStepOutOfRange ==
    /\ call'.op = "Storage.step"
    /\ nodes["s"].current_storage # None
    /\ LET level == nodes["s"].current_storage
                        + StorageInFlow(nodes["s"], call'.flows)
                        - StorageOutFlow(nodes["s"], call'.flows)
       IN  level < 0 \/ level > nodes["s"].capacity

C1_StorageLevelWithinCapacity ==
    /\ []StorageLevelsInRange
    /\ [][StorageStepOutOfRange =>
            call'.err # "" /\ nodes'["s"]._storage = nodes["s"]._storage]_vars

C1_Witness ==
    /\ call.op = "Storage.step" /\ call.err = "more than capacity"
    /\ Len(nodes["s"]._storage) >= 2
    /\ Last(nodes["s"]._storage) > 0

-----------------------------------------------------------------------------
(* C2: every non-null flow in an edge's history lies in                    *)
(* [min_flow, max_flow] and is whole when the edge is integer; an update   *)
(* with a flow below min_flow, above max_flow, or fractional on an integer *)
(* edge raises and leaves the history as it was.                           *)

EdgeFlowsInBounds ==
    \A k \in DOMAIN edges : \A i \in 1..Len(edges[k]._flows) :
        LET f == edges[k]._flows[i].value
        IN  IsNum(f) => /\ edges[k].min_flow <= f /\ f <= edges[k].max_flow
                        /\ (edges[k].integer => f % FlowDen = 0)

EdgeUpdateOutOfBounds ==
    /\ call'.op = "InternalEdge.update"
    /\ IsNum(call'.state)
    /\ \/ call'.state < edges[EdgeKey].min_flow
       \/ call'.state > edges[EdgeKey].max_flow
       \/ (edges[EdgeKey].integer /\ call'.state % FlowDen # 0)

C2_EdgeFlowWithinBounds ==
    /\ []EdgeFlowsInBounds
    /\ [][EdgeUpdateOutOfBounds =>
            call'.err # "" /\ edges'[EdgeKey]._flows = edges[EdgeKey]._flows]_vars

C2_Witness ==
    /\ call.op = "InternalEdge.update" /\ call.err = "should be integer"
    /\ Len(edges[EdgeKey]._flows) >= 1
    /\ edges[EdgeKey]._flows[1].value = edges[EdgeKey].max_flow

-----------------------------------------------------------------------------
(* C3: a customer step raises when the flows of the step whose destination *)
(* is the customer sum to more than the pending demand; when the sum is at *)
(* most the demand it succeeds and appends the demand, not the flow.       *)

CustomerStepCalled ==
    /\ call'.op = "ExtremityNode.step"
    /\ nodes["c"].kind = "customer"
    /\ nodes["c"].current_value # None

-----------------------------------------------------------------------------
(* C4: for a machine with max_starting = (N, T), every window of T         *)
(* consecutive committed steps holds at most N starts (an on state whose   *)
(* predecessor is off, the machine being off before the first step); a     *)
(* step whose on state would be start N + 1 of its trailing window raises  *)
(* and commits nothing, and one that keeps the count at N or below is      *)
(* committed.                                                              *)

IsStart(h, i) == ~IsNull(h[i]) /\ (i = 1 \/ IsNull(h[i - 1]))
StartsIn(h, lo, hi) == Cardinality({i \in lo..hi : i >= 1 /\ i <= Len(h) /\ IsStart(h, i)})

StartsBounded ==
    \A n \in DOMAIN nodes :
        (nodes[n].kind = "machine" /\ nodes[n].max_starting # NoMaxStarting) =>
            \A j \in 1..Len(nodes[n]._states) :
                StartsIn(nodes[n]._states, j, j + nodes[n].max_starting[2] - 1)
                    <= nodes[n].max_starting[1]

StartsStep ==
    /\ call'.op = "Machine.step" /\ ~IsNull(call'.state)
    /\ nodes["m"].max_starting # NoMaxStarting
    /\ MachineFlowsAgree(nodes["m"], call'.flows, call'.state)

StartsAfter ==
    LET h == Append(nodes["m"]._states, call'.state)
    IN  StartsIn(h, Len(h) - nodes["m"].max_starting[2] + 1, Len(h))

C4_MaxStartingWindow ==
    /\ []StartsBounded
    /\ [][StartsStep =>
            /\ StartsAfter > nodes["m"].max_starting[1] =>
                    call'.err # "" /\ nodes'["m"]._states = nodes["m"]._states
            /\ StartsAfter <= nodes["m"].max_starting[1] =>
                    /\ call'.err = ""
                    /\ nodes'["m"]._states = Append(nodes["m"]._states, call'.state)]_vars

\* a start was rejected while the window already holds N = 2 starts
C4_Witness ==
    /\ call.op = "Machine.step" /\ call.err = "cannot be started"
    /\ nodes["m"].max_starting = <<2, 5>>
    /\ Len(nodes["m"]._states) = 4
    /\ StartsIn(nodes["m"]._states, 1, 4) = 2

-----------------------------------------------------------------------------
(* C5: Machine.step commits an on state only if, for every column of the   *)
(* setpoint table, the sum of the step's flows on the machine's edges of   *)
(* that commodity equals the table's value at the state (its row when      *)
(* discrete, the linear interpolation between the neighbouring breakpoints *)
(* when continuous), and commits an off state only if all sums are zero;   *)
(* a step whose sums disagree raises and appends nothing.                  *)

EdgeSum(m, col, flows) ==
    IF col[1] = "input" THEN flows[<<"p", m.name, col[2]>>]
    ELSE Add(flows[<<m.name, "c1", col[2]>>], flows[<<m.name, "c2", col[2]>>])

SumAtSetpoint(m, col, state, sum) ==
    LET xp == m._setpoint.index
        fp == Column(m, col)
    IN  /\ IsNum(sum)
        /\ IF IsNull(state) THEN sum = 0
           ELSE IF m.discrete_setpoint
                THEN \E i \in 1..Len(xp) : xp[i] = state /\ sum = fp[i]
                ELSE \E i \in 1..(Len(xp) - 1) :
                        /\ xp[i] <= state /\ state <= xp[i + 1]
                        /\ (sum - fp[i]) * (xp[i + 1] - xp[i])
                                = (state - xp[i]) * (fp[i + 1] - fp[i])

FlowsAtSetpoint ==
    \A col \in Columns(nodes["m"]) :
        SumAtSetpoint(nodes["m"], col, call'.state, EdgeSum(nodes["m"], col, call'.flows))

C5_MachineFlowsMatchSetpoint ==
    [][call'.op = "Machine.step" =>
        /\ nodes'["m"]._states # nodes["m"]._states =>
                /\ FlowsAtSetpoint
                /\ nodes'["m"]._states = Append(nodes["m"]._states, call'.state)
        /\ ~FlowsAtSetpoint =>
                call'.err # "" /\ nodes'["m"]._states = nodes["m"]._states]_vars

\* a continuous machine committed the state 2 between its breakpoints 1 and 3,
\* with 2 units on its in-edge and 2 units on one of its out-edges
C5_Witness ==
    /\ call.op = "Machine.step" /\ call.err = "" /\ call.state = 2
    /\ ~nodes["m"].discrete_setpoint
    /\ nodes["m"].max_starting = NoMaxStarting
    /\ Len(nodes["m"]._states) = 2 /\ Last(nodes["m"]._states) = 2
    /\ call.flows[<<"p", "m", "in">>] = 2
    /\ call.flows[<<"m", "c1", "out">>] = 0 /\ call.flows[<<"m", "c2", "out">>] = 2

-----------------------------------------------------------------------------
(* C6: every on state in a machine's history is a breakpoint of its table  *)
(* when the setpoint is discrete and lies between the smallest and the     *)
(* largest breakpoint when it is continuous; a step with any other on      *)
(* state raises an unsupported-state error and commits nothing.            *)

SupportedState(m, state) ==
    IF m.discrete_setpoint THEN \E i \in 1..Len(m._setpoint.index) : m._setpoint.index[i] = state
    ELSE /\ \A i \in 1..Len(m._setpoint.index) : m._setpoint.index[1] <= m._setpoint.index[i]
         /\ m._setpoint.index[1] <= state
         /\ \E i \in 1..Len(m._setpoint.index) :
                /\ \A j \in 1..Len(m._setpoint.index) : m._setpoint.index[j] <= m._setpoint.index[i]
                /\ state <= m._setpoint.index[i]

StatesSupported ==
    \A n \in DOMAIN nodes :
        nodes[n].kind = "machine" =>
            \A i \in 1..Len(nodes[n]._states) :
                IsNull(nodes[n]._states[i]) \/ SupportedState(nodes[n], nodes[n]._states[i])

C6_MachineStateSupported ==
    /\ []StatesSupported
    /\ [][(/\ call'.op = "Machine.step" /\ ~IsNull(call'.state)
           /\ ~SupportedState(nodes["m"], call'.state)) =>
                /\ call'.err = "Unsupported state"
                /\ nodes'["m"]._states = nodes["m"]._states]_vars

\* a continuous machine that committed its largest breakpoint rejected the
\* state just above it
C6_Witness ==
    /\ call.op = "Machine.step" /\ call.err = "Unsupported state" /\ call.state = 4
    /\ ~nodes["m"].discrete_setpoint
    /\ nodes["m"].max_starting = NoMaxStarting
    /\ Len(nodes["m"]._states) = 1 /\ nodes["m"]._states[1] = 3

-----------------------------------------------------------------------------
(* Histories and pending values of the stateful entities *)

History(o) ==
    IF o.kind = "storage" THEN o._storage
    ELSE IF o.kind = "machine" THEN o._states
    ELSE o._values

Pending(o) ==
    IF o.kind = "storage" THEN o.current_storage
    ELSE IF o.kind = "machine" THEN o.current_state
    ELSE o.current_value

IsPrefix(h1, h2) == Len(h1) <= Len(h2) /\ SubSeq(h2, 1, Len(h1)) = h1

UpdateOps ==
    {"Storage.update", "ExtremityNode.update", "Machine.update",
     "InternalVarianceNode.update", "InternalEdge.update"}
StepOps == {"Storage.step", "ExtremityNode.step", "Machine.step"}

-----------------------------------------------------------------------------
(* C7: the history of every stateful entity is append-only, its k-th entry *)
(* carries the k-th label of the horizon, and it never holds more entries  *)
(* than the horizon has labels: the entity raises instead of going past    *)
(* the horizon.                                                            *)

HistoryWithinHorizon ==
    /\ \A n \in DOMAIN nodes :
            "_horizon" \in DOMAIN nodes[n] => Len(History(nodes[n])) <= Len(nodes[n]._horizon)
    /\ \A e \in DOMAIN edges : Len(edges[e]._flows) <= Len(edges[e]._horizon)

HistoryLabelled ==
    /\ \A n \in DOMAIN nodes :
            nodes[n].kind = "variance" =>
                \A k \in 1..Len(nodes[n]._values) :
                    nodes[n]._values[k].index = nodes[n]._horizon[k]
    /\ \A e \in DOMAIN edges :
            \A k \in 1..Len(edges[e]._flows) : edges[e]._flows[k].index = edges[e]._horizon[k]

HistoryAppendOnly ==
    /\ \A n \in DOMAIN nodes : IsPrefix(History(nodes[n]), History(nodes'[n]))
    /\ \A e \in DOMAIN edges : IsPrefix(edges[e]._flows, edges'[e]._flows)

C7_HistoryAppendOnlyWithinHorizon ==
    /\ [](HistoryWithinHorizon /\ HistoryLabelled)
    /\ [][HistoryAppendOnly]_vars

-----------------------------------------------------------------------------
(* C8: update on any stateful entity only stores a pending value: the      *)
(* committed history of every entity is the same before and after it.      *)

C8_UpdateKeepsHistory ==
    [][call'.op \in UpdateOps =>
        /\ \A n \in DOMAIN nodes : History(nodes'[n]) = History(nodes[n])
        /\ \A e \in DOMAIN edges : edges'[e]._flows = edges[e]._flows]_vars

-----------------------------------------------------------------------------
(* C9: after every successful step of a supplier, purchaser, customer,     *)
(* storage or machine (its committed state on or off) the history of the   *)
(* entity has grown by exactly one entry and its pending value is None.    *)

C9_StepCommitsAndClearsPending ==
    [][(call'.op \in StepOps /\ call'.err = "") =>
        /\ Len(History(nodes'[call'.key])) = Len(History(nodes[call'.key])) + 1
        /\ Pending(nodes'[call'.key]) = None]_vars

-----------------------------------------------------------------------------
(* C10: a plant completes run at most once: once a run has completed, no   *)
(* further call of run completes, and no such call changes the history of  *)
(* any entity.                                                             *)

C10_RunCompletesAtMostOnce ==
    /\ [](run.completed <= 1)
    /\ [][run.completed >= 1 =>
            /\ \A n \in DOMAIN nodes : History(nodes'[n]) = History(nodes[n])
            /\ \A e \in DOMAIN edges : edges'[e]._flows = edges[e]._flows]_vars

-----------------------------------------------------------------------------
(* C11: check_plan accepts an assignment exactly when its keys are the     *)
(* machine names and the edge keys of the plant; a key that is neither     *)
(* raises an error naming that key, otherwise missing machines raise an    *)
(* error listing them, otherwise missing edges raise an error listing them.*)

GivenKeys(items) == {items[i].key : i \in 1..Len(items)}
MachineNames == {<<n>> : n \in {n \in DOMAIN nodes : nodes[n].kind = "machine"}}
RequiredKeys == MachineNames \cup DOMAIN edges

-----------------------------------------------------------------------------
(* C12: process_plan accepts a plan exactly when every key is a machine    *)
(* name or an edge key of the plant, every machine and every edge has an   *)
(* entry, and every entry that is not a scalar has as many values as the   *)
(* horizon has labels.                                                     *)

EntriesOfHorizonLength ==
    \A i \in 1..Len(call.plan.items) :
        call.plan.items[i].value.sized =>
            Len(call.plan.items[i].value.data) = Len(run._horizon)

C12_ProcessPlanAcceptsValidPlans ==
    call.op = "process_plan" =>
        (call.err = "" <=>
            GivenKeys(call.plan.items) = RequiredKeys /\ EntriesOfHorizonLength)

-----------------------------------------------------------------------------
(* C13: the level a storage step commits is previous + in_flow - out_flow, *)
(* in_flow and out_flow being the sums of the step's flows on the edges in *)
(* and out of the storage, and previous being 0 on an empty history and    *)
(* (1 - dissipation) times the last committed level otherwise.             *)

StepInFlow == call'.flows[<<"i1", "s", "c">>] + call'.flows[<<"i2", "s", "c">>]
StepOutFlow == call'.flows[<<"s", "o1", "c">>]

C13_StorageLevelBalance ==
    [][(call'.op = "Storage.step" /\ call'.err = "") =>
        LET s == nodes["s"]
            previous == IF Len(s._storage) = 0 THEN 0
                        ELSE (DissDen - s.dissipation) * Last(s._storage)
        IN  /\ Len(nodes'["s"]._storage) = Len(s._storage) + 1
            /\ DissDen * Last(nodes'["s"]._storage)
                    = previous + DissDen * (StepInFlow - StepOutFlow)]_vars

\* a storage that loses half of its level per step committed half of its
\* previous positive level plus a positive input
C13_Witness ==
    /\ call.op = "Storage.step" /\ call.err = ""
    /\ nodes["s"].dissipation = 1
    /\ Len(nodes["s"]._storage) = 2
    /\ nodes["s"]._storage[1] > 0
    /\ call.flows[<<"i1", "s", "c">>] > 0
    /\ DissDen * nodes["s"]._storage[2]
            = (DissDen - 1) * nodes["s"]._storage[1]
                + DissDen * (call.flows[<<"i1", "s", "c">>] + call.flows[<<"i2", "s", "c">>])

-----------------------------------------------------------------------------
(* C14: a storage step is committed only if its total input and its total  *)
(* output are not both non-zero, the input is at most charge_rate and the  *)
(* output at most discharge_rate; a step that breaks one of the three      *)
(* raises and commits nothing, and a step whose totals are both zero       *)
(* passes the three checks and, on a storage that was updated, commits.    *)

StepFlowsAllowed ==
    /\ StepInFlow = 0 \/ StepOutFlow = 0
    /\ StepInFlow <= nodes["s"].charge_rate
    /\ StepOutFlow <= nodes["s"].discharge_rate

C14_StorageFlowRates ==
    [][call'.op = "Storage.step" =>
        /\ nodes'["s"]._storage # nodes["s"]._storage => StepFlowsAllowed
        /\ ~StepFlowsAllowed =>
                /\ call'.err \in {"either input or output", "maximal input flow",
                                  "maximal output flow"}
                /\ nodes'["s"]._storage = nodes["s"]._storage
        /\ (StepInFlow = 0 /\ StepOutFlow = 0 /\ nodes["s"].current_storage # None) =>
                /\ call'.err = ""
                /\ Len(nodes'["s"]._storage) = Len(nodes["s"]._storage) + 1]_vars

\* a storage holding a positive level rejected an output above discharge_rate
C14_Witness ==
    /\ call.op = "Storage.step" /\ call.err = "maximal output flow"
    /\ Len(nodes["s"]._storage) >= 1 /\ Last(nodes["s"]._storage) > 0
    /\ call.flows[<<"s", "o1", "c">>] > nodes["s"].discharge_rate
    /\ call.flows[<<"i1", "s", "c">>] + call.flows[<<"i2", "s", "c">>] = 0

-----------------------------------------------------------------------------
(* C15: in every plant built by any sequence of add_* calls no two nodes   *)
(* share a name, whatever their kinds; an add_* call whose name is the     *)
(* name of a node already in the plant (of any kind) raises an error that  *)
(* names the kind and the name of the existing node, and adds no node and  *)
(* no edge.                                                                *)

NodeNamesUnique ==
    \A k1 \in DOMAIN nodes, k2 \in DOMAIN nodes :
        \A n1 \in nodes[k1], n2 \in nodes[k2] :
            n1.name = n2.name => (k1 = k2 /\ n1 = n2)

AddExistingNameRaises ==
    \A k \in DOMAIN nodes : \A n \in nodes[k] :
        call'.key = n.name =>
            /\ call'.err = "There is already a"
            /\ call'.out = <<k, n.name>>
            /\ nodes' = nodes
            /\ edges' = edges

C15_NodeNamesUnique == []NodeNamesUnique /\ [][AddExistingNameRaises]_vars

C15_Witness ==
    /\ call.op = "add_supplier"
    /\ call.err = "There is already a"
    /\ call.out = <<"storage", call.key>>
    /\ \E n \in nodes["storage"] : n.name = call.key

-----------------------------------------------------------------------------
(* C16: add_client, add_machine and add_storage succeed only if the list   *)
(* of parents is not empty and every parent is the name of a node that was *)
(* in the plant before the call (so a node cannot be its own parent) and   *)
(* whose commodities_out contain the input commodity of the new node; a    *)
(* call rejected for one of its parents raises an error naming that parent.*)

ParentsWereInPlant ==
    (call'.op \in {"add_client", "add_machine", "add_storage"} /\ call'.err = "") =>
        /\ Len(call'.plan) > 0
        /\ \A i \in 1..Len(call'.plan) :
              \E k \in DOMAIN nodes : \E n \in nodes[k] :
                  /\ n.name = call'.plan[i]
                  /\ call'.state \in n.commodities_out

RejectedParentNamed ==
    call'.err \in {"has not been added yet", "should return commodity"} =>
        \E i \in 1..Len(call'.plan) : call'.out = <<call'.plan[i]>>

C16_ParentsAlreadyInPlant == [][ParentsWereInPlant /\ RejectedParentNamed]_vars

-----------------------------------------------------------------------------
(* C17: the plant holds at most one edge for each ordered pair (source,    *)
(* destination), and for every edge the input commodity of the destination *)
(* is not null and is one of the output commodities of the source.         *)

EdgePairsUnique ==
    \A i \in 1..Len(edges), j \in 1..Len(edges) :
        (edges[i].source = edges[j].source
            /\ edges[i].destination = edges[j].destination) => i = j

EdgeCommoditiesAgree ==
    \A i \in 1..Len(edges) :
        \E ks \in DOMAIN nodes, kd \in DOMAIN nodes :
            \E s \in nodes[ks], d \in nodes[kd] :
                /\ s.name = edges[i].source
                /\ d.name = edges[i].destination
                /\ d.commodity_in # NoCommodity
                /\ d.commodity_in = edges[i].commodity
                /\ d.commodity_in \in s.commodities_out

C17_OneEdgePerPair == EdgePairsUnique /\ EdgeCommoditiesAgree

C17_Witness ==
    /\ call.op = "add_client"
    /\ call.err = ""
    /\ call.plan = <<"a", "a">>
    /\ \E i \in 1..Len(edges) :
          edges[i].source = "a" /\ edges[i].destination = call.key

-----------------------------------------------------------------------------
(* C18: with the default variance function (always 0) every realized price *)
(* or demand equals its prediction for the step in which it is committed,  *)
(* and when the run of a plant completes the realized series of each such  *)
(* node equals its predicted series.                                       *)

DefaultVariance(n) == nodes[n]._variance_fn = "zero"

RealizedIsPredicted ==
    \A n \in DOMAIN nodes :
        (DefaultVariance(n) /\ Len(nodes'[n]._values) = Len(nodes[n]._values) + 1) =>
            Last(nodes'[n]._values) = nodes[n]._predictions[run.step + 1]

RunRealizesPredictions ==
    (run.calls = 1 /\ run'.completed = run.completed + 1) =>
        \A n \in DOMAIN nodes :
            DefaultVariance(n) => nodes'[n]._values = nodes[n]._predictions

-----------------------------------------------------------------------------
(* C19: two runs of identically built plants with the same seed, plan,     *)
(* recourse action and variance functions either both raise at the same    *)
(* step or both complete with identical outputs, whatever the order in     *)
(* which each plant iterates its sets of nodes and edges.                  *)

C19_RunsAgree ==
    (run.A.pc # "loop" /\ run.B.pc # "loop") =>
        /\ run.A.pc = run.B.pc
        /\ run.A.step = run.B.step
        /\ run.A.pc = "done" =>
              \A n \in DOMAIN nodes.A : nodes.A[n]._values = nodes.B[n]._values

-----------------------------------------------------------------------------
(* C20: an edge accepts a null (None or NaN) flow only when its            *)
(* destination is a machine whose state in that step is off; a null flow   *)
(* on an edge that leads to a node that is not a machine, or to a machine  *)
(* that is on in that step, is rejected and not added to the edge's flows. *)

MachineOffInStep(e) == e.to_machine /\ IsNull(nodes[e.destination].current_state)

NullFlowNeedsOffMachine ==
    \A k \in DOMAIN edges :
        (call'.op = "InternalEdge.update" /\ IsNull(call'.state)
            /\ ~ MachineOffInStep(edges[k])) =>
                /\ call'.err # ""
                /\ edges'[k]._flows = edges[k]._flows

C20_NullFlowOnlyToOffMachine == [][NullFlowNeedsOffMachine]_vars

-----------------------------------------------------------------------------
(* C21: a machine stepped with state 0 is treated as off, for a discrete   *)
(* and for a continuous setpoint, also when 0 is not a breakpoint and lies *)
(* below the smallest one: the step raises no unsupported-state error, and *)
(* with no flow on the machine's edges it is committed.                    *)

MachineFlowsAllZero(flows) == \A k \in DOMAIN flows : flows[k] = 0

ZeroStateIsOff ==
    (call'.op = "Machine.step" /\ call'.state = 0) =>
        /\ call'.err # "Unsupported state"
        /\ MachineFlowsAllZero(call'.flows) =>
              /\ call'.err = ""
              /\ Len(nodes'["m"]._states) = Len(nodes["m"]._states) + 1

C21_ZeroStateIsOff == [][ZeroStateIsOff]_vars

-----------------------------------------------------------------------------
(* C22: for every entity and every getter of a series or table, writing    *)
(* into the returned object changes neither the entity's internal series   *)
(* nor what a later call of the same getter returns.                       *)

-----------------------------------------------------------------------------
(* C23: two internal entities of the same kind are equal exactly when      *)
(* their keys are equal (the name of a node, the pair of source and        *)
(* destination names of an edge), whatever their other attributes; two     *)
(* equal entities have the same hash, and entities with different keys are *)
(* never equal.                                                            *)

C23_EqualityByKey ==
    call.op = "__eq__" =>
        LET a == call.plan[1]
            b == call.plan[2]
        IN  /\ a.class = b.class => (call.out.eq <=> a.key = b.key)
            /\ call.out.eq => call.out.hash[1] = call.out.hash[2]
            /\ a.key # b.key => ~ call.out.eq
            /\ call.out.eq = call.out.qe

C23_Witness ==
    /\ call.op = "__eq__"
    /\ call.plan[1].class = "Machine" /\ call.plan[2].class = "Machine"
    /\ call.plan[1].key = call.plan[2].key
    /\ call.plan[1].attrs # call.plan[2].attrs
    /\ call.out.eq

\* C24: the output of a finished run has exactly one flows column per edge, one
\* states column per machine, one storage column per storage, one demands
\* column per customer, one buying_prices column per purchaser and one
\* sell_prices column per supplier; every node is in exactly one table, and
\* every column holds the H committed values of its entity in horizon order.
NamesOfKind(kind) == {n \in DOMAIN nodes : nodes[n].kind = kind}

OneColumnPerEntity ==
    /\ DOMAIN call.out.flows.columns = {SimpleKey(edges[k]) : k \in DOMAIN edges}
    /\ Cardinality(DOMAIN call.out.flows.columns) = Cardinality(DOMAIN edges)
    /\ DOMAIN call.out.states.columns = NamesOfKind("machine")
    /\ DOMAIN call.out.storage.columns = NamesOfKind("storage")
    /\ DOMAIN call.out.demands.columns = NamesOfKind("customer")
    /\ DOMAIN call.out.buying_prices.columns = NamesOfKind("purchaser")
    /\ DOMAIN call.out.sell_prices.columns = NamesOfKind("supplier")

NodeInOneTable ==
    \A n \in DOMAIN nodes :
        Cardinality({t \in OutputTables \ {"flows"} : n \in DOMAIN call.out[t].columns}) = 1

ColumnsHoldCommitted ==
    /\ \A k \in DOMAIN edges :
          LET column == call.out.flows.columns[SimpleKey(edges[k])]
          IN  /\ Len(column) = Len(run.horizon)
              /\ \A i \in 1..Len(column) :
                    /\ edges[k]._flows[i].index = run.horizon[i]
                    /\ column[i] = edges[k]._flows[i].value
    /\ \A n \in DOMAIN nodes :
          \A t \in OutputTables \ {"flows"} :
              n \in DOMAIN call.out[t].columns =>
                  /\ Len(call.out[t].columns[n]) = Len(run.horizon)
                  /\ call.out[t].columns[n] = Committed(nodes[n])

Satisfies(user_input, d) ==
    CASE user_input.type = "None" -> TRUE
      [] user_input.type = "str" -> d = user_input.chars
      [] OTHER -> d \in user_input.items

C27_EdgesFilter ==
    call.op = "edges" =>
        call.out = {e \in edges : /\ Satisfies(call.plan.sources, e.source)
                                  /\ Satisfies(call.plan.destinations, e.destination)
                                  /\ Satisfies(call.plan.commodities, e.commodity)}

\* C25: in every plant reachable by a sequence of add_* calls, calls that raised
\* included, the commodities of the plant are exactly the union of commodity_in
\* and commodities_out over the nodes that are in the plant.
NodeCommodities(n) ==
    (IF n.commodity_in # NoCommodity THEN {n.commodity_in} ELSE {}) \cup n.commodities_out

C25_CommoditiesOfNodes ==
    run._commodities =
        UNION {NodeCommodities(n) : n \in UNION {nodes[k] : k \in DOMAIN nodes}}

\* C26: a constructed storage has capacity > 0, 0 <= dissipation <= 1,
\* charge_rate > 0 and discharge_rate > 0; a constructed machine has cost >= 0,
\* non-negative setpoint breakpoints and values, and max_starting absent or
\* (N, T) with 0 < N < T; a constructed edge has 0 <= min_flow <= max_flow; a
\* construction that would violate any of these raises.
StorageNumbersValid(s) ==
    /\ Gt(s.capacity, 0)
    /\ Ge(s.dissipation, 0) /\ Ge(DissDen, s.dissipation)
    /\ Gt(s.charge_rate, 0)
    /\ Gt(s.discharge_rate, 0)

MachineNumbersValid(m) ==
    /\ Ge(m.cost, 0)
    /\ \A i \in 1..Len(m._setpoint.index) : Ge(m._setpoint.index[i], 0)
    /\ \A c \in DOMAIN m._setpoint.input :
          \A i \in 1..Len(m._setpoint.input[c]) : Ge(m._setpoint.input[c][i], 0)
    /\ \A c \in DOMAIN m._setpoint.output :
          \A i \in 1..Len(m._setpoint.output[c]) : Ge(m._setpoint.output[c][i], 0)
    /\ \/ m.max_starting = NoMaxStarting
       \/ 0 < m.max_starting[1] /\ m.max_starting[1] < m.max_starting[2]

EdgeNumbersValid(e) == Ge(e.min_flow, 0) /\ Ge(e.max_flow, e.min_flow)

NumbersValid(class, obj) ==
    CASE class = "Storage" -> StorageNumbersValid(obj)
      [] class = "Machine" -> MachineNumbersValid(obj)
      [] OTHER -> EdgeNumbersValid(obj)

C26_ConstructedNumbersValid ==
    call.op = "__post_init__" =>
        /\ call.err = "" => NumbersValid(call.plan.class, nodes[1])
        /\ ~ NumbersValid(call.plan.class, call.plan.obj) => call.err # ""

\* C28: Plant.copy returns a plant with the same commodities, nodes and edges
\* as the original, and no later operation on the copy (adding nodes or edges,
\* running a simulation, drawing random numbers) changes the nodes, edges,
\* histories or generator state of the original.
CopyEqualsOriginal ==
    call'.op = "copy" => Deref(run'.copy, nodes') = Deref(run'.original, nodes')

OriginalUnchanged ==
    Deref(run'.original, nodes') = Deref(run.original, nodes)

C28_CopyIsIndependent == [][CopyEqualsOriginal /\ OriginalUnchanged]_vars

C28_Witness ==
    /\ run.copy # NoPlant
    /\ call.op = "run"
    /\ Deref(run.original, nodes)._sim.step = 1
    /\ Deref(run.copy, nodes)._sim.step = 2
    /\ Deref(run.copy, nodes)._rng > Deref(run.original, nodes)._rng + 2

\* C29: in a run over a horizon of length H that does not raise, the recourse
\* action is invoked exactly H times with the step indices 0, 1, ..., H-1 in
\* increasing order; for every step t every entity is updated for t before any
\* entity is stepped for t, and every node is stepped for t before the
\* recourse action is invoked for t+1.
Logged(ev, who, t, before) ==
    \E j \in 1..before - 1 : call.out[j] = Event(ev, who, t)

RecourseInOrder ==
    LET calls == SelectSeq(call.out, LAMBDA e : e.ev = "recourse")
    IN  /\ \A i \in 1..Len(calls) : calls[i].t = i - 1
        /\ call.op = "return" => Len(calls) = Len(run._horizon)

UpdatesBeforeSteps ==
    \A i \in 1..Len(call.out) :
        call.out[i].ev = "step" =>
            /\ \A who \in Entities : Logged("update", who, call.out[i].t, i)
            /\ \A j \in i + 1..Len(call.out) :
                  ~ (call.out[j].ev = "update" /\ call.out[j].t = call.out[i].t)

StepsBeforeNextRecourse ==
    \A i \in 1..Len(call.out) :
        (call.out[i].ev = "recourse" /\ call.out[i].t > 0) =>
            \A n \in DOMAIN nodes : Logged("step", <<n>>, call.out[i].t - 1, i)

FirstStepTaken == run.A.pc = "loop" /\ run.B.pc = "loop" /\ run.A.step = 1 /\ run.B.step = 1

GeneratorsAgree == run.A.drawn = run.B.drawn

C30_StepOrderIrrelevant ==
    FirstStepTaken =>
        /\ GeneratorsAgree
        /\ \A n \in DOMAIN nodes.A :
              /\ nodes.A[n].current_value = nodes.B[n].current_value
              /\ nodes.A[n]._values = nodes.B[n]._values

\* C31: when an update or a step raises during time step t of a run, the run
\* ends with that error: no output is returned, the recourse action is not
\* invoked again and no entity is updated or stepped again.
RaiseEndsRun == call.err # "" => run.pc = "raised"

NothingAfterRaise == call.err = "" /\ run.pc # "raised"

C31_RaiseAbortsRun == [](call.op # "init" => RaiseEndsRun) /\ [][NothingAfterRaise]_vars

C31_Witness ==
    /\ run.pc = "raised"
    /\ call.op = "step"
    /\ call.err # ""
    /\ Cardinality(DOMAIN nodes) = 2
    /\ Len(call.out) > 3

\* C32: a step on an entity that has no pending value (no update since its
\* construction or since its last step) raises and appends nothing to the
\* history of the entity, whatever the kind of the entity.
StepWithoutPending ==
    /\ call'.op = "ExtremityNode.step"
    /\ nodes["c"].current_value = None

C32_StepNeedsPending ==
    [][StepWithoutPending =>
          call'.err # "" /\ nodes'["c"]._values = nodes["c"]._values]_vars

\* C33: a Storage.step that raises (both directions non-zero, charge or
\* discharge rate exceeded, negative level, capacity exceeded) leaves the
\* history and the pending current amount of the storage unchanged, so that a
\* following step with other flows is checked against the same pending amount.
StorageStepRaised == call'.op = "Storage.step" /\ call'.err # ""

StorageStepCommitted ==
    /\ call'.op = "Storage.step" /\ call'.err = ""
    /\ nodes'["s"]._storage =
          Append(nodes["s"]._storage,
                 nodes["s"].current_storage + StorageInFlow(nodes["s"], call'.flows)
                                            - StorageOutFlow(nodes["s"], call'.flows))

C33_RaisingStorageStepKeepsPending ==
    [][/\ StorageStepRaised =>
            /\ nodes'["s"]._storage = nodes["s"]._storage
            /\ nodes'["s"].current_storage = nodes["s"].current_storage
       /\ (call'.op = "Storage.step" /\ call'.err = "") => StorageStepCommitted]_vars

C33_Witness ==
    /\ call.op = "Storage.step"
    /\ call.err \in {"either input or output", "maximal input flow", "maximal output flow",
                     "negative amount", "more than capacity"}
    /\ nodes["s"].current_storage # None
    /\ nodes["s"].current_storage > 0

\* C34: for every plan that process_plan accepts, in mapping form or in table
\* form, the result is a list of exactly H per-step assignments, and the
\* assignment of step t maps every machine and every edge to the t-th entry of
\* its plan vector, a scalar standing for H copies of itself; a table whose
\* number of rows differs from H is rejected.
PlanEntry(key) ==
    call.plan.items[CHOOSE i \in 1..Len(call.plan.items) : call.plan.items[i].key = key].value

EntryAt(key, t) ==
    IF PlanEntry(key).sized THEN PlanEntry(key).data[t] ELSE PlanEntry(key).data[1]

StepAssignments ==
    /\ Len(call.out.output) = Len(run._horizon)
    /\ \A t \in 1..Len(call.out.output) :
          /\ DOMAIN call.out.output[t].states = {m[1] : m \in MachineNames}
          /\ \A m \in MachineNames : call.out.output[t].states[m[1]] = EntryAt(m, t)
          /\ DOMAIN call.out.output[t].flows =
                {<<k[1], k[2], PlanCommodity>> : k \in DOMAIN edges}
          /\ \A k \in DOMAIN edges :
                call.out.output[t].flows[<<k[1], k[2], PlanCommodity>>] = EntryAt(k, t)

C34_ProcessPlanStepAssignments ==
    call.op = "process_plan" =>
        /\ call.err = "" => StepAssignments
        /\ (call.plan.frame /\ call.plan.rows # Len(run._horizon)) => call.err # ""

\* C35: when a plan has several defects, process_plan raises exactly one
\* error chosen by a fixed precedence: a vector of wrong length (the first one
\* in the plan's iteration order) before any unknown key, an unknown key
\* before any missing machine, and missing machines before missing edges.
WrongLengths ==
    {i \in 1..Len(call.plan.items) :
        /\ ~ call.plan.frame
        /\ call.plan.items[i].value.sized
        /\ Len(call.plan.items[i].value.data) # Len(run._horizon)}

UnknownKeys == {i \in 1..Len(call.plan.items) : call.plan.items[i].key \notin RequiredKeys}

First(indices) == CHOOSE i \in indices : \A j \in indices : i <= j

MissingMachines == MachineNames \ GivenKeys(call.plan.items)
MissingEdges == DOMAIN edges \ GivenKeys(call.plan.items)

C36_RaisingAddLeavesPlant ==
    [][call'.err # "" =>
          /\ nodes' = nodes
          /\ edges' = edges
          /\ run'._commodities = run._commodities]_vars

\* C37: in every reachable plant and for every node n, the in-edge list of n
\* holds every plant edge whose destination is n exactly once and nothing
\* else, and the out-edge list of n holds every plant edge whose source is n
\* exactly once and nothing else; a successful add_* with parents P creates
\* exactly one edge (p, new node) per distinct p in P, also when P repeats a
\* name.
Occurrences(list, e) == Cardinality({i \in 1..Len(list) : list[i] = e})
EdgeSet == {edges[i] : i \in 1..Len(edges)}

EdgeListsMatch ==
    \A n \in UNION {nodes[k] : k \in DOMAIN nodes} :
        /\ \A e \in EdgeSet :
              /\ Occurrences(n._in_edges, e) = (IF e.destination = n.name THEN 1 ELSE 0)
              /\ Occurrences(n._out_edges, e) = (IF e.source = n.name THEN 1 ELSE 0)
        /\ \A i \in 1..Len(n._in_edges) : n._in_edges[i] \in EdgeSet
        /\ \A i \in 1..Len(n._out_edges) : n._out_edges[i] \in EdgeSet

OneEdgePerDistinctParent ==
    (call'.err = "" /\ call'.plan # NoParents) =>
        /\ Len(edges') = Len(edges) + Cardinality({call'.plan[i] : i \in 1..Len(call'.plan)})
        /\ \A i \in 1..Len(call'.plan) :
              Cardinality({j \in 1..Len(edges') :
                              /\ edges'[j].source = call'.plan[i]
                              /\ edges'[j].destination = call'.key}) = 1

C37_EdgeListsMatchEdges == []EdgeListsMatch /\ [][OneEdgePerDistinctParent]_vars

\* C38: for every edge and every prediction-driven node, the internal step
\* counter equals the number of entries of the committed history in every
\* reachable state, including the state after an update that raised.
C38_StepCountsHistory ==
    \A k \in DOMAIN edges : edges[k].step = Len(edges[k]._flows)

\* C39: a Customer.step that raises because the inbound flow exceeds the
\* demand leaves the history and the pending current demand of the customer
\* unchanged, so that a following step with a feasible flow commits that same
\* demand.
C39_RaisingCustomerStepKeepsDemand ==
    [][(CustomerStepCalled /\ call'.err = "can accept at most") =>
          /\ nodes'["c"]._values = nodes["c"]._values
          /\ nodes'["c"].current_value = nodes["c"].current_value]_vars

=============================================================================
